---- MODULE Spec2Model ----
(***************************************************************************)
(* A model of the DOCX -> RittDoc pipeline: the Hierarchy Builder          *)
(* (DocBookGenerator), the Reference Resolver, the Conformance Validator   *)
(* (RittDocValidator) and the Packager (PackageGenerator).                 *)
(*                                                                         *)
(* Strings that the code formats or matches character by character (ids,   *)
(* file names) are sequences of one-character strings.  Paragraph text is  *)
(* a sequence of lexical tokens (a keyword, a run of blanks, a number      *)
(* digit, a separator, another word), the units the reference grammar      *)
(* distinguishes.  The XML tree is a sequence of nodes; node 1 is the      *)
(* root, and every node lists its children in order.                       *)
(***************************************************************************)
EXTENDS Integers, Sequences, FiniteSets, TLC

VARIABLES
    content,    \* DocxContent: title, elements, text_blocks, images
    images,     \* the ExtractedImage objects, by object identity
    self,       \* the DocBookGenerator's fields
    loc,        \* the locals of _process_elements
    tree,       \* the lxml tree under construction (root = node 1)
    pos,        \* number of elements of content.elements already processed
    pc,         \* position in the pipeline
    writes,     \* per image object: number of assignments to .filename
    xml,        \* the serialized document returned by generate
    package,    \* what create_package put in the archive
    result,     \* the ValidationResult
    prev,       \* the tree as it was before the last resolver pass
    runs,       \* the parts returned by _parse_inline_formatting
    job         \* the ConversionJob of the API, its worker and its requests

vars ==
    <<content, images, self, loc, tree, pos, pc, writes, xml, package, result,
      prev, runs, job>>

\* no job has been created
NoJob == <<>>

-----------------------------------------------------------------------------
(* Bounds *)

\* longest element sequence enumerated
MaxElems == 3

-----------------------------------------------------------------------------
(* Text *)

None == 0

DigitChar == <<"0", "1", "2", "3", "4", "5", "6", "7", "8", "9">>

RECURSIVE Digits(_)
Digits(n) ==
    IF n < 10 THEN <<DigitChar[n + 1]>>
    ELSE Digits(n \div 10) \o <<DigitChar[(n % 10) + 1]>>

RECURSIVE ZeroPad(_, _)
ZeroPad(s, w) ==
    IF Len(s) >= w THEN s ELSE ZeroPad(<<"0">> \o s, w)

\* f"{n:02d}" and f"{n:04d}"
Fmt02(n) == ZeroPad(Digits(n), 2)
Fmt04(n) == ZeroPad(Digits(n), 4)

IsSpace(tok) == tok = " "

RECURSIVE CollapseSpaces(_)
CollapseSpaces(text) ==
    IF Len(text) <= 1 THEN text
    ELSE IF IsSpace(text[1]) /\ IsSpace(text[2]) THEN CollapseSpaces(Tail(text))
    ELSE <<text[1]>> \o CollapseSpaces(Tail(text))

RECURSIVE LStrip(_)
LStrip(text) ==
    IF text # <<>> /\ IsSpace(text[1]) THEN LStrip(Tail(text)) ELSE text

RECURSIVE RStrip(_)
RStrip(text) ==
    IF text # <<>> /\ IsSpace(text[Len(text)])
    THEN RStrip(SubSeq(text, 1, Len(text) - 1))
    ELSE text

Strip(text) == RStrip(LStrip(text))

\* _clean_text: runs of whitespace become one blank, then strip
CleanText(text) == Strip(CollapseSpaces(text))

\* Path(name).suffix: from the last dot, unless the name starts with it
RECURSIVE LastDot(_, _)
LastDot(name, i) ==
    IF i = 0 THEN 0
    ELSE IF name[i] = "." THEN i
    ELSE LastDot(name, i - 1)

Suffix(name) ==
    LET d == LastDot(name, Len(name))
    IN  IF d <= 1 \/ d = Len(name) THEN <<>> ELSE SubSeq(name, d, Len(name))

-----------------------------------------------------------------------------
(* The tree *)

NoAttrs == <<>>

Node(tag, attrs, text) ==
    [tag |-> tag, attrs |-> attrs, text |-> text, tail |-> <<>>, kids |-> <<>>]

\* etree.SubElement(parent, ...) / parent.append(node): the new node is the
\* last child of parent and gets index Len(t) + 1
SubElement(t, parent, node) ==
    [i \in 1..(Len(t) + 1) |->
        IF i = Len(t) + 1 THEN node
        ELSE IF i = parent THEN [t[i] EXCEPT !.kids = Append(@, Len(t) + 1)]
        ELSE t[i]]

HasAttr(n, a) == a \in DOMAIN n.attrs

Root == 1

Parent(t, i) ==
    IF \E p \in 1..Len(t) : \E k \in 1..Len(t[p].kids) : t[p].kids[k] = i
    THEN CHOOSE p \in 1..Len(t) : \E k \in 1..Len(t[p].kids) : t[p].kids[k] = i
    ELSE None

\* elem.find(tag): the first child with that tag, or None
Find(t, i, tag) ==
    LET ks == t[i].kids
        hits == {k \in 1..Len(ks) : t[ks[k]].tag = tag}
    IN  IF hits = {} THEN None
        ELSE ks[CHOOSE k \in hits : \A h \in hits : k <= h]

\* the nodes of the subtree of i in document (depth-first) order
RECURSIVE Walk(_, _)
RECURSIVE WalkKids(_, _, _)
Walk(t, i) == <<i>> \o WalkKids(t, t[i].kids, 1)
WalkKids(t, ks, k) ==
    IF k > Len(ks) THEN <<>>
    ELSE Walk(t, ks[k]) \o WalkKids(t, ks, k + 1)

-----------------------------------------------------------------------------
(* DocBookGenerator: the Hierarchy Builder *)

\* The builder's operations take and return a bundle of the state they touch:
\* [self, loc, tree, images, writes].

\* a list_type of None (falsy)
NoListType == ""

NoLocals ==
    [current_chapter |-> None, current_sect1 |-> None, current_sect2 |-> None,
     current_sect3 |-> None, current_list |-> None, current_list_type |-> NoListType]

\* __init__ followed by the resets at the top of generate
NewGenerator(prefix) ==
    [multimedia_prefix |-> prefix,
     chapter_counter |-> 0, figure_counter |-> 0, table_counter |-> 0,
     sect1_counter |-> 0, sect2_counter |-> 0, sect3_counter |-> 0,
     global_figure_counter |-> 0, global_table_counter |-> 0,
     figure_id_map |-> <<>>, table_id_map |-> <<>>,
     current_chapter_code |-> <<"C", "h", "0", "0", "0", "1">>]

GetSectionCode(s) ==
    IF s.sect1_counter > 0
    THEN <<"s">> \o Fmt02(s.sect1_counter) \o Fmt02(s.sect2_counter)
    ELSE <<"s", "0", "0", "0", "0">>

GetChapterId(s) == <<"c", "h">> \o Fmt04(s.chapter_counter)

GetSectionId(s) == GetChapterId(s) \o GetSectionCode(s)

\* dict[key] = value
DictSet(d, key, value) ==
    [k \in (DOMAIN d) \cup {key} |-> IF k = key THEN value ELSE d[k]]

\* a new element with an id attribute under parent, and its <title> child
AddTitled(t, parent, tag, id, titleText) ==
    LET t1 == SubElement(t, parent, Node(tag, [id |-> id], <<>>))
    IN  SubElement(t1, Len(t) + 1, Node("title", NoAttrs, titleText))

\* the list left open
CloseListNot(l) == l

CloseList(l) ==
    [l EXCEPT !.current_list = None, !.current_list_type = NoListType]

\* the counter updates of a level-1 heading without the figure counter reset
NewChapterCountersKeepFigures(s) ==
    [s EXCEPT !.sect1_counter = 0, !.sect2_counter = 0, !.sect3_counter = 0,
              !.chapter_counter = @ + 1,
              !.table_counter = 0]

\* the counter updates of a level-1 heading, were the global sequence
\* counters reset with the per-chapter ones
NewChapterCountersResetGlobal(s) ==
    [s EXCEPT !.sect1_counter = 0, !.sect2_counter = 0, !.sect3_counter = 0,
              !.chapter_counter = @ + 1,
              !.figure_counter = 0, !.table_counter = 0,
              !.global_figure_counter = 0, !.global_table_counter = 0]

\* the counter updates of a level-1 heading
NewChapterCounters(s) ==
    [s EXCEPT !.sect1_counter = 0, !.sect2_counter = 0, !.sect3_counter = 0,
              !.chapter_counter = @ + 1,
              !.figure_counter = 0, !.table_counter = 0]

ChapterCode(s) == <<"C", "h">> \o Fmt04(s.chapter_counter)

Heading1(b, text) ==
    LET s1 == NewChapterCounters(b.self)
    IN  [b EXCEPT
          !.self = [s1 EXCEPT !.current_chapter_code = ChapterCode(s1)],
          !.loc = [NoLocals EXCEPT !.current_chapter = Len(b.tree) + 1],
          !.tree = AddTitled(b.tree, Root, "chapter",
                             <<"c", "h">> \o Fmt04(s1.chapter_counter),
                             CleanText(text))]

\* a default chapter that is always titled "Content"
EnsureChapterContent(b, title) ==
    LET s0 == [b.self EXCEPT
                 !.chapter_counter = @ + 1,
                 !.figure_counter = 0, !.table_counter = 0,
                 !.sect1_counter = 0, !.sect2_counter = 0, !.sect3_counter = 0]
        s1 == [s0 EXCEPT !.current_chapter_code = ChapterCode(s0)]
    IN  [b EXCEPT
          !.self = s1,
          !.loc = [@ EXCEPT !.current_chapter = Len(b.tree) + 1],
          !.tree = AddTitled(b.tree, Root, "chapter", GetChapterId(s1),
                             <<"Content">>)]

EnsureChapter(b, title) ==
    LET s0 == [b.self EXCEPT
                 !.chapter_counter = @ + 1,
                 !.figure_counter = 0, !.table_counter = 0,
                 !.sect1_counter = 0, !.sect2_counter = 0, !.sect3_counter = 0]
        s1 == [s0 EXCEPT !.current_chapter_code = ChapterCode(s0)]
    IN  [b EXCEPT
          !.self = s1,
          !.loc = [@ EXCEPT !.current_chapter = Len(b.tree) + 1],
          !.tree = AddTitled(b.tree, Root, "chapter", GetChapterId(s1),
                             IF title # <<>> THEN title ELSE <<"Content">>)]

\* if current_chapter is None: current_chapter = self._ensure_chapter(...)
WithChapter(b, title) ==
    IF b.loc.current_chapter = None THEN EnsureChapter(b, title) ELSE b

OpenSect1(b, titleText) ==
    LET s1 == [b.self EXCEPT !.sect1_counter = @ + 1]
    IN  [b EXCEPT
          !.self = s1,
          !.loc = [@ EXCEPT !.current_sect1 = Len(b.tree) + 1],
          !.tree = AddTitled(b.tree, b.loc.current_chapter, "sect1",
                             GetSectionId(s1), titleText)]

OpenSect2(b, titleText) ==
    LET s1 == [b.self EXCEPT !.sect2_counter = @ + 1]
    IN  [b EXCEPT
          !.self = s1,
          !.loc = [@ EXCEPT !.current_sect2 = Len(b.tree) + 1],
          !.tree = AddTitled(b.tree, b.loc.current_sect1, "sect2",
                             GetSectionId(s1), titleText)]

\* a sect3 hung on the open sect1 instead of the open sect2
OpenSect3UnderSect1(b, titleText) ==
    LET s1 == [b.self EXCEPT !.sect3_counter = @ + 1]
    IN  [b EXCEPT
          !.self = s1,
          !.loc = [@ EXCEPT !.current_sect3 = Len(b.tree) + 1],
          !.tree = AddTitled(b.tree, b.loc.current_sect1, "sect3",
                             GetSectionId(s1), titleText)]

OpenSect3(b, titleText) ==
    LET s1 == [b.self EXCEPT !.sect3_counter = @ + 1]
    IN  [b EXCEPT
          !.self = s1,
          !.loc = [@ EXCEPT !.current_sect3 = Len(b.tree) + 1],
          !.tree = AddTitled(b.tree, b.loc.current_sect2, "sect3",
                             GetSectionId(s1), titleText)]

WithSect1(b) ==
    IF b.loc.current_sect1 = None THEN OpenSect1(b, <<"Section">>) ELSE b

WithSect2(b) ==
    IF b.loc.current_sect2 = None THEN OpenSect2(b, <<"Subsection">>) ELSE b

\* a level-2 heading that leaves the open sect2 and sect3 as they are
Heading2KeepsSubsections(b, text, title) ==
    OpenSect1(WithChapter([b EXCEPT !.loc = CloseList(@)], title), CleanText(text))

Heading2(b, text, title) ==
    LET b0 == [b EXCEPT
                 !.loc = [CloseList(@) EXCEPT !.current_sect2 = None,
                                              !.current_sect3 = None],
                 !.self = [@ EXCEPT !.sect2_counter = 0, !.sect3_counter = 0]]
    IN  OpenSect1(WithChapter(b0, title), CleanText(text))

Heading3(b, text, title) ==
    LET b0 == [b EXCEPT
                 !.loc = [CloseList(@) EXCEPT !.current_sect3 = None],
                 !.self = [@ EXCEPT !.sect3_counter = 0]]
    IN  OpenSect2(WithSect1(WithChapter(b0, title)), CleanText(text))

Heading4(b, text, title) ==
    LET b0 == [b EXCEPT !.loc = CloseList(@)]
    IN  OpenSect3(WithSect2(WithSect1(WithChapter(b0, title))), CleanText(text))

\* sect3 > sect2 > sect1 > chapter
DeepestOpen(l) ==
    IF l.current_sect3 # None THEN l.current_sect3
    ELSE IF l.current_sect2 # None THEN l.current_sect2
    ELSE IF l.current_sect1 # None THEN l.current_sect1
    ELSE l.current_chapter

\* parent = ...; if parent is None: current_chapter = _ensure_chapter(); parent = it
WithParent(b, title) ==
    IF DeepestOpen(b.loc) = None THEN EnsureChapter(b, title) ELSE b

\* the bold marker; a text holds it as one token
BOLD == "**"

\* the other markers; a text holds a star, each opener and the closing
\* brace as one token
STAR == "*"
SUB == "{sub:"
SUP == "{sup:"
BRACE == "}"

RECURSIVE Stars(_)
\* the text with every bold marker token written as its two stars
Stars(text) ==
    IF text = <<>> THEN <<>>
    ELSE (IF Head(text) = BOLD THEN <<STAR, STAR>> ELSE <<Head(text)>>)
            \o Stars(Tail(text))

Part(text, fmt) == [text |-> text, fmt |-> fmt]

\* n stars from position i on
StarsAt(c, i, n) == i + n - 1 <= Len(c) /\ \A k \in i..(i + n - 1) : c[k] = STAR

RECURSIVE ClosingStars(_, _, _)
\* the first position from from on where n stars begin, or 0
ClosingStars(c, from, n) ==
    IF from + n - 1 > Len(c) THEN 0
    ELSE IF StarsAt(c, from, n) THEN from
    ELSE ClosingStars(c, from + 1, n)

RECURSIVE ClosingBrace(_, _)
\* the first closing brace from from on, or 0
ClosingBrace(c, from) ==
    IF from > Len(c) THEN 0
    ELSE IF c[from] = BRACE THEN from
    ELSE ClosingBrace(c, from + 1)

NoMatch == [end |-> 0]

\* a match whose group keeps its closing delimiter
MatchedWithDelimiter(c, open, close, n, fmt) ==
    [end |-> close + n - 1, text |-> SubSeq(c, open, close), fmt |-> fmt]

\* the match whose group (.+?) is c[open..close - 1], closed by a delimiter
\* of n characters at close
Matched(c, open, close, n, fmt) ==
    [end |-> close + n - 1, text |-> SubSeq(c, open, close - 1), fmt |-> fmt]

\* the pattern at position i, its alternatives in order: {sub:(.+?)},
\* {sup:(.+?)}, ***(.+?)***, **(.+?)**, *(.+?)*; the group is not empty
\* and ends at the first closing delimiter after its first character
MatchAt(c, i) ==
    IF c[i] = SUB /\ ClosingBrace(c, i + 2) # 0
    THEN Matched(c, i + 1, ClosingBrace(c, i + 2), 1, "subscript")
    ELSE IF c[i] = SUP /\ ClosingBrace(c, i + 2) # 0
    THEN Matched(c, i + 1, ClosingBrace(c, i + 2), 1, "superscript")
    ELSE IF StarsAt(c, i, 3) /\ ClosingStars(c, i + 4, 3) # 0
    THEN Matched(c, i + 3, ClosingStars(c, i + 4, 3), 3, "bold")
    ELSE IF StarsAt(c, i, 2) /\ ClosingStars(c, i + 3, 2) # 0
    THEN Matched(c, i + 2, ClosingStars(c, i + 3, 2), 2, "bold")
    ELSE IF StarsAt(c, i, 1) /\ ClosingStars(c, i + 2, 1) # 0
    THEN Matched(c, i + 1, ClosingStars(c, i + 2, 1), 1, "italic")
    ELSE NoMatch

\* text[current_pos:start] as a plain part, when it is not empty
PlainBefore(c, current_pos, start) ==
    IF start > current_pos
    THEN <<Part(SubSeq(c, current_pos, start - 1), "none")>>
    ELSE <<>>

RECURSIVE FindIter(_, _, _, _)
RECURSIVE AfterMatch(_, _, _, _, _)
\* for match in re.finditer(pattern, text), the search being at position i
\* and current_pos the first character after the last match
FindIter(c, i, current_pos, parts) ==
    IF i > Len(c) THEN parts \o PlainBefore(c, current_pos, Len(c) + 1)
    ELSE AfterMatch(c, i, current_pos, parts, MatchAt(c, i))

AfterMatch(c, i, current_pos, parts, m) ==
    IF m.end = 0 THEN FindIter(c, i + 1, current_pos, parts)
    ELSE FindIter(c, m.end + 1, m.end + 1,
                  parts \o PlainBefore(c, current_pos, i)
                        \o <<Part(m.text, m.fmt)>>)

\* if not parts: parts.append((text, None))
OrWhole(text, parts) == IF parts = <<>> THEN <<Part(text, "none")>> ELSE parts

\* _parse_inline_formatting
ParseInlineFormatting(text) == OrWhole(text, FindIter(Stars(text), 1, 1, <<>>))

\* the element made for a part with this format
PartNode(part) ==
    CASE part.fmt = "bold" ->
            Node("emphasis", [role |-> <<"b", "o", "l", "d">>], part.text)
      [] part.fmt = "italic" -> Node("emphasis", NoAttrs, part.text)
      [] OTHER -> Node(part.fmt, NoAttrs, part.text)

RECURSIVE SetParts(_, _, _, _)
\* for part_text, fmt in parts: plain text goes to the tail of the last
\* element made, or to para.text before the first
SetParts(t, para, parts, last_elem) ==
    IF parts = <<>> THEN t
    ELSE LET part == Head(parts)
         IN  IF part.fmt = "none"
             THEN SetParts(IF last_elem # None
                           THEN [t EXCEPT ![last_elem].tail = @ \o part.text]
                           ELSE [t EXCEPT ![para].text = @ \o part.text],
                           para, Tail(parts), last_elem)
             ELSE SetParts(SubElement(t, para, PartNode(part)),
                           para, Tail(parts), Len(t) + 1)

\* _set_para_content
SetParaContent(t, para, text) ==
    LET clean == CleanText(text)
        has_formatting == \E k \in 1..Len(clean) :
                              clean[k] \in {BOLD, STAR, SUB, SUP}
        parts == ParseInlineFormatting(clean)
    IN  IF ~has_formatting THEN [t EXCEPT ![para].text = clean]
        ELSE IF Len(parts) = 1 /\ parts[1].fmt = "none"
        THEN [t EXCEPT ![para].text = parts[1].text]
        ELSE SetParts([t EXCEPT ![para].text = <<>>], para, parts, None)

ListTag(list_type) ==
    IF list_type = "bullet" THEN "itemizedlist" ELSE "orderedlist"

ListItem(b, block, title) ==
    LET b1 == WithParent(b, title)
        parent == DeepestOpen(b1.loc)
        fresh == b1.loc.current_list = None
                   \/ b1.loc.current_list_type # block.list_type
        t1 == IF fresh
              THEN SubElement(b1.tree, parent,
                              Node(ListTag(block.list_type), NoAttrs, <<>>))
              ELSE b1.tree
        lst == IF fresh THEN Len(b1.tree) + 1 ELSE b1.loc.current_list
        t2 == SubElement(t1, lst, Node("listitem", NoAttrs, <<>>))
        t3 == SubElement(t2, Len(t1) + 1, Node("para", NoAttrs, <<>>))
    IN  [b1 EXCEPT
          !.loc = [@ EXCEPT !.current_list = lst,
                            !.current_list_type = block.list_type],
          !.tree = SetParaContent(t3, Len(t2) + 1, block.text)]

PlainParagraph(b, block, title) ==
    LET b1 == WithParent(b, title)
        parent == DeepestOpen(b1.loc)
        t1 == SubElement(b1.tree, parent, Node("para", NoAttrs, <<>>))
    IN  [b1 EXCEPT
          !.loc = CloseList(@),
          !.tree = IF Strip(block.text) # <<>>
                   THEN SetParaContent(t1, Len(b1.tree) + 1, block.text)
                   ELSE b1.tree]

Paragraph(b, block, title) ==
    IF block.level = 1 THEN Heading1(b, block.text)
    ELSE IF block.level = 2 THEN Heading2(b, block.text, title)
    ELSE IF block.level = 3 THEN Heading3(b, block.text, title)
    ELSE IF block.level >= 4 THEN Heading4(b, block.text, title)
    ELSE IF block.list_type # NoListType THEN ListItem(b, block, title)
    ELSE PlainParagraph(b, block, title)

\* fig_id = f"{chapter_id}{section_code}fg{figure_counter:02d}"
FigureId(s) ==
    GetChapterId(s) \o GetSectionCode(s) \o <<"f", "g">> \o Fmt02(s.figure_counter)

\* a filename that starts with the chapter id in the casing of the XML id
FigureFilenameLowercase(s, ext) ==
    GetChapterId(s) \o GetSectionCode(s) \o <<"f", "g">>
        \o Fmt02(s.figure_counter) \o ext

\* figure_filename = f"{current_chapter_code}{section_code}fg{figure_counter:02d}{ext}"
FigureFilename(s, ext) ==
    s.current_chapter_code \o GetSectionCode(s) \o <<"f", "g">>
        \o Fmt02(s.figure_counter) \o ext

FigureTitle(s, caption) ==
    IF caption # <<>> THEN caption ELSE <<"Figure", " ">> \o Digits(s.figure_counter)

CreateFigure(b, img, parent) ==
    LET ext == Suffix(b.images[img].filename)
        fig_id == FigureId(b.self)
        s1 == [b.self EXCEPT !.global_figure_counter = @ + 1]
        s2 == [s1 EXCEPT !.figure_id_map =
                            DictSet(@, s1.global_figure_counter, fig_id)]
        figure_filename == FigureFilename(b.self, ext)
        figure == Len(b.tree) + 1
        t1 == SubElement(b.tree, parent, Node("figure", [id |-> fig_id], <<>>))
        t2 == SubElement(t1, figure,
                  Node("title", NoAttrs, FigureTitle(b.self, b.images[img].caption)))
        t3 == SubElement(t2, figure, Node("mediaobject", NoAttrs, <<>>))
        t4 == SubElement(t3, figure + 2, Node("imageobject", NoAttrs, <<>>))
        t5 == SubElement(t4, figure + 3,
                  Node("imagedata",
                       [fileref |-> b.self.multimedia_prefix \o figure_filename,
                        width |-> <<"1", "0", "0", "%">>,
                        scalefit |-> <<"1">>],
                       <<>>))
    IN  [b EXCEPT
          !.self = s2,
          !.images = [@ EXCEPT ![img].filename = figure_filename],
          !.writes = [@ EXCEPT ![img] = @ + 1],
          !.tree = t5]

Image(b, img, title) ==
    LET b0 == [b EXCEPT !.loc = CloseList(@)]
        b1 == WithParent(b0, title)
        b2 == [b1 EXCEPT !.self = [@ EXCEPT !.figure_counter = @ + 1]]
    IN  CreateFigure(b2, img, DeepestOpen(b1.loc))

\* table_id = f"{chapter_id}{section_code}tb{table_counter:02d}"
TableId(s) ==
    GetChapterId(s) \o GetSectionCode(s) \o <<"t", "b">> \o Fmt02(s.table_counter)

TableTitle(s, caption) ==
    IF caption # <<>> THEN caption ELSE <<"Table", " ">> \o Digits(s.table_counter)

Max(S) == CHOOSE x \in S : \A y \in S : y <= x

\* num_cols = table.num_cols or (max(len(row) for row in rows) if rows else 1)
NumCols(table) ==
    IF table.num_cols # 0 THEN table.num_cols
    ELSE IF table.rows # <<>>
         THEN Max({Len(table.rows[r]) : r \in 1..Len(table.rows)})
         ELSE 1

\* rows[:header_rows] if header_rows > 0 else []
HeaderRows(table) ==
    IF table.header_rows > 0
    THEN SubSeq(table.rows, 1,
                IF table.header_rows < Len(table.rows)
                THEN table.header_rows ELSE Len(table.rows))
    ELSE <<>>

\* rows[header_rows:] if header_rows > 0 else rows
BodyRows(table) ==
    IF table.header_rows > 0
    THEN SubSeq(table.rows, table.header_rows + 1, Len(table.rows))
    ELSE table.rows

RECURSIVE AddColspecs(_, _, _, _)
AddColspecs(t, tgroup, i, n) ==
    IF i > n THEN t
    ELSE AddColspecs(
            SubElement(t, tgroup,
                       Node("colspec", [colname |-> <<"c">> \o Digits(i)], <<>>)),
            tgroup, i + 1, n)

RECURSIVE AddEntries(_, _, _)
AddEntries(t, row, cells) ==
    IF cells = <<>> THEN t
    ELSE AddEntries(SubElement(t, row, Node("entry", NoAttrs, CleanText(Head(cells)))),
                    row, Tail(cells))

RECURSIVE AddRows(_, _, _)
AddRows(t, block, rows) ==
    IF rows = <<>> THEN t
    ELSE AddRows(AddEntries(SubElement(t, block, Node("row", NoAttrs, <<>>)),
                            Len(t) + 1, Head(rows)),
                 block, Tail(rows))

\* if rows: block = SubElement(tgroup, tag); for row in rows: ...
AddRowBlock(t, tgroup, tag, rows) ==
    IF rows = <<>> THEN t
    ELSE AddRows(SubElement(t, tgroup, Node(tag, NoAttrs, <<>>)), Len(t) + 1, rows)

CreateTable(b, table, parent) ==
    LET table_id == TableId(b.self)
        s1 == [b.self EXCEPT !.global_table_counter = @ + 1]
        s2 == [s1 EXCEPT !.table_id_map =
                            DictSet(@, s1.global_table_counter, table_id)]
        table_elem == Len(b.tree) + 1
        num_cols == NumCols(table)
        t1 == SubElement(b.tree, parent, Node("table", [id |-> table_id], <<>>))
        t2 == SubElement(t1, table_elem,
                  Node("title", NoAttrs, TableTitle(b.self, table.caption)))
        t3 == SubElement(t2, table_elem,
                  Node("tgroup", [cols |-> Digits(num_cols)], <<>>))
        tgroup == table_elem + 2
        t4 == AddColspecs(t3, tgroup, 1, num_cols)
        t5 == AddRowBlock(t4, tgroup, "thead", HeaderRows(table))
        t6 == AddRowBlock(t5, tgroup, "tbody", BodyRows(table))
    IN  [b EXCEPT !.self = s2, !.tree = t6]

Table(b, table, title) ==
    LET b0 == [b EXCEPT !.loc = CloseList(@)]
        b1 == WithParent(b0, title)
        b2 == [b1 EXCEPT !.self = [@ EXCEPT !.table_counter = @ + 1]]
    IN  CreateTable(b2, table, DeepestOpen(b1.loc))

-----------------------------------------------------------------------------
(* DocBookGenerator: the Reference Resolver *)

\* str.lower() on the keyword tokens
Lower(tok) ==
    CASE tok = "Figure" -> "figure"
      [] tok = "Figures" -> "figures"
      [] tok = "Fig." -> "fig."
      [] tok = "FIG" -> "fig"
      [] tok = "Table" -> "table"
      [] tok = "Tables" -> "tables"
      [] tok = "Tab." -> "tab."
      [] tok = "TABLE" -> "table"
      [] OTHER -> tok

\* (Figures?|Figs?\.?|Tables?|Tabs?\.?), re.IGNORECASE
FigWords == {"figure", "figures", "fig", "figs", "fig.", "figs."}
TabWords == {"table", "tables", "tab", "tabs", "tab.", "tabs."}
IsKeyword(tok) == Lower(tok) \in FigWords \cup TabWords

IsDigit(tok) == \E d \in 1..10 : DigitChar[d] = tok

\* [-–&,]
IsSep(tok) == tok \in {"-", "--", "&", ","}

\* the token ends with a character of \w
EndsInWordChar(tok) ==
    ~IsSpace(tok) /\ ~IsSep(tok)
        /\ tok \notin {".", "fig.", "figs.", "tab.", "tabs.", "Fig.", "Tab."}

RECURSIVE SkipWhile(_, _, _)
\* the first index >= i whose token is not of the class (Len + 1 at the end)
SkipWhile(text, i, digits) ==
    IF i <= Len(text) /\ (IF digits THEN IsDigit(text[i]) ELSE IsSpace(text[i]))
    THEN SkipWhile(text, i + 1, digits)
    ELSE i

\* \s*\d+ matches from index i
IsDigitAfterSpaces(text, i) ==
    SkipWhile(text, i, FALSE) <= Len(text)
        /\ IsDigit(text[SkipWhile(text, i, FALSE)])

\* the last token of the \s*\d+ that starts at index i
DigitsEnd(text, i) == SkipWhile(text, SkipWhile(text, i, FALSE), TRUE) - 1

RECURSIVE NumberListEnd(_, _)
\* (?:\s*[-&,]\s*\d+)* greedily from the token after index e; the last token matched
NumberListEnd(text, e) ==
    LET a == SkipWhile(text, e + 1, FALSE)
    IN  IF a <= Len(text) /\ IsSep(text[a]) /\ IsDigitAfterSpaces(text, a + 1)
        THEN NumberListEnd(text, DigitsEnd(text, a + 1))
        ELSE e

\* ref_pattern matched at index i: the index of the last token of the match, or 0
MatchEnd(text, i) ==
    IF i > Len(text) \/ ~IsKeyword(text[i]) THEN 0
    ELSE IF i > 1 /\ EndsInWordChar(text[i - 1]) THEN 0
    ELSE IF SkipWhile(text, i + 1, FALSE) = i + 1 THEN 0
    ELSE IF ~IsDigitAfterSpaces(text, i + 1) THEN 0
    ELSE NumberListEnd(text, DigitsEnd(text, i + 1))

RECURSIVE NextMatch(_, _)
\* the start of the first match at or after index i, or 0
NextMatch(text, i) ==
    IF i > Len(text) THEN 0
    ELSE IF MatchEnd(text, i) # 0 THEN i
    ELSE NextMatch(text, i + 1)

RECURSIVE ToInt(_)
ToInt(digits) ==
    IF digits = <<>> THEN 0
    ELSE 10 * ToInt(SubSeq(digits, 1, Len(digits) - 1))
           + ((CHOOSE d \in 1..10 : DigitChar[d] = digits[Len(digits)]) - 1)

NoLink == <<>>

\* the linkend of a reference of this type to this number, or NoLink
Lookup(s, ref_type, num) ==
    IF ref_type \in FigWords /\ num \in DOMAIN s.figure_id_map
    THEN s.figure_id_map[num]
    ELSE IF ref_type \in TabWords /\ num \in DOMAIN s.table_id_map
    THEN s.table_id_map[num]
    ELSE NoLink

\* _resolve_reference on the match text[i..e]: the linkend, or NoLink
ResolveReference(s, text, i, e) ==
    Lookup(s, Lower(text[i]),
           ToInt(SubSeq(text, SkipWhile(text, i + 1, FALSE),
                        DigitsEnd(text, i + 1))))

RECURSIVE ExtractLoop(_, _, _, _, _, _)
RECURSIVE ExtractMatch(_, _, _, _, _, _, _, _)
\* the loop of _extract_links_from_text, from index from on
ExtractLoop(s, text, from, last_end, remaining, links) ==
    ExtractMatch(s, text, NextMatch(text, from), MatchEnd(text, NextMatch(text, from)),
                 NoLink, last_end, remaining, links)

\* the body of the loop for the match text[i..e] (i = 0: no match is left);
\* linkend is NoLink until the match is resolved
ExtractMatch(s, text, i, e, linkend, last_end, remaining, links) ==
    IF i = 0
    THEN [last_end |-> last_end, remaining |-> remaining, links |-> links]
    ELSE IF linkend # NoLink
    THEN ExtractLoop(s, text, e + 1, e,
             remaining \o SubSeq(text, last_end + 1, i - 1),
             Append(links, [text |-> SubSeq(text, i, e),
                            linkend |-> linkend, tail |-> <<>>]))
    ELSE IF ResolveReference(s, text, i, e) # NoLink
    THEN ExtractMatch(s, text, i, e, ResolveReference(s, text, i, e),
                      last_end, remaining, links)
    ELSE ExtractLoop(s, text, e + 1, last_end, remaining, links)

\* the tail of the last link is the text after the last resolved match
SetLastTail(links, tail) ==
    [k \in 1..Len(links) |->
        IF k = Len(links) THEN [links[k] EXCEPT !.tail = tail] ELSE links[k]]

\* _extract_links_from_text: [remaining, links]
ExtractResult(text, r) ==
    IF r.links = <<>> THEN [remaining |-> text, links |-> <<>>]
    ELSE [remaining |-> r.remaining,
          links |-> IF r.last_end < Len(text)
                    THEN SetLastTail(r.links,
                             SubSeq(text, r.last_end + 1, Len(text)))
                    ELSE r.links]

ExtractLinksFromText(s, text) ==
    ExtractResult(text, ExtractLoop(s, text, 1, 0, <<>>, <<>>))

LinkNode(l) ==
    [tag |-> "link", attrs |-> [linkend |-> l.linkend], text |-> l.text,
     tail |-> l.tail, kids |-> <<>>]

IndexOf(seq, x) == CHOOSE k \in 1..Len(seq) : seq[k] = x

\* parent.insert(at + i, link) for each link i = 0..n-1; at is a 0-based position
InsertLinks(t, parent, at, links) ==
    LET n == Len(t)
        ks == t[parent].kids
        new == [k \in 1..Len(links) |-> n + k]
        at1 == IF at > Len(ks) THEN Len(ks) ELSE at
    IN  [i \in 1..(n + Len(links)) |->
            IF i > n THEN LinkNode(links[i - n])
            ELSE IF i = parent
            THEN [t[i] EXCEPT !.kids =
                     SubSeq(ks, 1, at1) \o new \o SubSeq(ks, at1 + 1, Len(ks))]
            ELSE t[i]]

\* the first half of _linkify_text_references: para.text
\* if links: para.text = new_text; the links go in front of the children
InsertInText(t, para, r) ==
    IF t[para].text # <<>> /\ r.links # <<>>
    THEN InsertLinks([t EXCEPT ![para].text = r.remaining], para, 0, r.links)
    ELSE t

LinkifyText(s, t, para) ==
    InsertInText(t, para, ExtractLinksFromText(s, t[para].text))

\* a child that is no link, with a tail: if links: child.tail = new_tail; the
\* links go behind the child
InsertAfterChild(t, para, child, r) ==
    IF t[child].tag # "link" /\ t[child].tail # <<>> /\ r.links # <<>>
    THEN InsertLinks([t EXCEPT ![child].tail = r.remaining], para,
                     IndexOf(t[para].kids, child), r.links)
    ELSE t

RECURSIVE LinkifyTails(_, _, _, _)
\* the second half: the tail of every child of the snapshot list(para)
LinkifyTails(s, t, para, children) ==
    IF children = <<>> THEN t
    ELSE LinkifyTails(s,
             InsertAfterChild(t, para, Head(children),
                 ExtractLinksFromText(s, t[Head(children)].tail)),
             para, Tail(children))

LinkifyKids(s, t, para) == LinkifyTails(s, t, para, t[para].kids)

LinkifyTextReferences(s, t, para) == LinkifyKids(s, LinkifyText(s, t, para), para)

\* _replace_with_link: a link with the element's text and tail takes its place
ReplaceWithLink(t, elem, linkend) ==
    LET parent == Parent(t, elem)
        n == Len(t)
    IN  IF parent = None THEN t
        ELSE [i \in 1..(n + 1) |->
                IF i = n + 1
                THEN [tag |-> "link", attrs |-> [linkend |-> linkend],
                      text |-> t[elem].text, tail |-> t[elem].tail, kids |-> <<>>]
                ELSE IF i = parent
                THEN [t[i] EXCEPT !.kids =
                        [k \in 1..Len(@) |-> IF @[k] = elem THEN n + 1 ELSE @[k]]]
                ELSE t[i]]

\* ref_pattern.match(text) and the linkend it resolves to, or NoLink
MatchAndResolve(s, text) ==
    IF text # <<>> /\ MatchEnd(text, 1) # 0
    THEN ResolveReference(s, text, 1, MatchEnd(text, 1))
    ELSE NoLink

ReplaceIfLinked(t, emphasis, linkend) ==
    IF linkend # NoLink THEN ReplaceWithLink(t, emphasis, linkend) ELSE t

LinkEmphasis(s, t, emphasis) ==
    ReplaceIfLinked(t, emphasis, MatchAndResolve(s, Strip(t[emphasis].text)))

RECURSIVE ForEach(_, _, _, _)
\* for node in nodes (a document-order list taken before the loop): body
ForEach(s, t, nodes, emphasis) ==
    IF nodes = <<>> THEN t
    ELSE ForEach(s,
                 IF emphasis THEN LinkEmphasis(s, t, Head(nodes))
                 ELSE LinkifyTextReferences(s, t, Head(nodes)),
                 Tail(nodes), emphasis)

\* root.iter(tag)
Iter(t, tag) == SelectSeq(Walk(t, Root), LAMBDA i : t[i].tag = tag)

ForEachIn(s, t, tag, emphasis) == ForEach(s, t, Iter(t, tag), emphasis)

PostProcessReferences(s, t) ==
    ForEachIn(s, ForEachIn(s, t, "emphasis", TRUE), "para", FALSE)

-----------------------------------------------------------------------------
(* Serialization and parsing.  A serialized document is the sequence of its   *)
(* markup tokens: the XML declaration, the DOCTYPE, start tags, empty-element *)
(* tags, character data, entity references and end tags.  The indentation    *)
(* that pretty_print adds is not represented.                                *)

RITTDOC_DOCTYPE_PUBLIC == "-//RIS Dev//DTD DocBook V4.3 -Based Variant V1.1//EN"
RITTDOC_DOCTYPE_SYSTEM == "http://LOCALHOST/dtd/V1.1/RittDocBook.dtd"

TextTok(text) == IF text = <<>> THEN <<>> ELSE <<[k |-> "text", text |-> text]>>

RECURSIVE ToString_(_, _)
RECURSIVE KidsToString(_, _, _)
\* etree.tostring(node): the element, its content and its tail
ToString_(t, i) ==
    (IF t[i].kids = <<>> /\ t[i].text = <<>>
     THEN <<[k |-> "empty", tag |-> t[i].tag, attrs |-> t[i].attrs]>>
     ELSE <<[k |-> "open", tag |-> t[i].tag, attrs |-> t[i].attrs]>>
            \o TextTok(t[i].text) \o KidsToString(t, t[i].kids, 1)
            \o <<[k |-> "close", tag |-> t[i].tag]>>)
    \o TextTok(t[i].tail)
KidsToString(t, ks, k) ==
    IF k > Len(ks) THEN <<>>
    ELSE ToString_(t, ks[k]) \o KidsToString(t, ks, k + 1)

\* _serialize_xml
SerializeXml(t) ==
    <<[k |-> "xmldecl"],
      [k |-> "doctype", public |-> RITTDOC_DOCTYPE_PUBLIC,
       system |-> RITTDOC_DOCTYPE_SYSTEM, entities |-> <<>>]>>
    \o ToString_(t, Root)

Top(stack) == stack[Len(stack)]

RECURSIVE ParseLoop(_, _, _, _, _)
\* t: the nodes so far; stack: the open elements; last: the element closed
\* last inside the innermost open element (None when text is element text).
\* Character data in front of the root element ends the parse without a root.
ParseLoop(toks, k, t, stack, last) ==
    IF k > Len(toks) THEN t
    ELSE LET tok == toks[k]
             n == Len(t) + 1
             up == IF stack = <<>> THEN None ELSE Top(stack)
         IN  CASE tok.k \in {"open", "empty"} ->
                    ParseLoop(toks, k + 1,
                        SubElement(t, up, Node(tok.tag, tok.attrs, <<>>)),
                        IF tok.k = "open" THEN Append(stack, n) ELSE stack,
                        IF tok.k = "open" THEN None ELSE n)
               [] tok.k = "text" /\ stack = <<>> /\ t = <<>> -> <<>>
               [] tok.k = "text" ->
                    ParseLoop(toks, k + 1,
                        IF last # None THEN [t EXCEPT ![last].tail = @ \o tok.text]
                        ELSE IF stack # <<>>
                        THEN [t EXCEPT ![Top(stack)].text = @ \o tok.text]
                        ELSE t,
                        stack, last)
               [] tok.k = "close" /\ stack # <<>> ->
                    ParseLoop(toks, k + 1, t,
                              SubSeq(stack, 1, Len(stack) - 1), Top(stack))
               [] OTHER -> ParseLoop(toks, k + 1, t, stack, last)

\* etree.fromstring(text, XMLParser(recover=True, resolve_entities=False)):
\* the tree, or <<>> when the text holds no element (the parse fails)
FromString(toks) == ParseLoop(toks, 1, <<>>, <<>>, None)

-----------------------------------------------------------------------------
(* RittDocValidator *)

EXCLUDED_ELEMENTS ==
    {"informalfigure", "informaltable", "variablelist", "simplelist", "example",
     "procedure", "div", "span", "b", "i", "u", "bridgehead", "abstract",
     "sidebar", "tip", "note", "warning", "caution", "important"}

TITLE_REQUIRED ==
    {"chapter", "sect1", "sect2", "sect3", "sect4", "sect5", "figure", "table",
     "book"}

REQUIRED_ATTRIBUTES ==
    [tag \in {"tgroup", "imagedata", "chapter", "sect1", "sect2", "sect3",
              "figure", "table"} |->
        IF tag = "tgroup" THEN <<"cols">>
        ELSE IF tag = "imagedata" THEN <<"fileref">>
        ELSE <<"id">>]

AllDigits(s, from, to) ==
    to <= Len(s) /\ \A k \in from..to : IsDigit(s[k])

IsPrefixAt(s, at, p) ==
    at + Len(p) - 1 <= Len(s) /\ \A k \in 1..Len(p) : s[at + k - 1] = p[k]

\* ^ch\d{4}
ChapterPart(id) == IsPrefixAt(id, 1, <<"c", "h">>) /\ AllDigits(id, 3, 6)
\* ^ch\d{4}s\d{4}
SectionPart(id) ==
    ChapterPart(id) /\ IsPrefixAt(id, 7, <<"s">>) /\ AllDigits(id, 8, 11)

\* ID_PATTERNS[tag].match(id)
IdPatternMatches(tag, id) ==
    CASE tag = "chapter" -> ChapterPart(id) /\ Len(id) = 6
      [] tag \in {"sect1", "sect2", "sect3"} -> SectionPart(id) /\ Len(id) = 11
      [] tag = "figure" ->
            SectionPart(id) /\ IsPrefixAt(id, 12, <<"f", "g">>)
                /\ AllDigits(id, 14, 15) /\ Len(id) = 15
      [] tag = "table" ->
            SectionPart(id) /\ IsPrefixAt(id, 12, <<"t", "b">>)
                /\ AllDigits(id, 14, 15) /\ Len(id) = 15
      [] OTHER -> FALSE

ID_PATTERN_TAGS == {"chapter", "sect1", "sect2", "sect3", "figure", "table"}

Finding(type, severity, tag) ==
    [error_type |-> type, severity |-> severity, tag |-> tag]

If(cond, findings) == IF cond THEN findings ELSE <<>>

\* elem.get(attr, '')
Get(n, a) == IF HasAttr(n, a) THEN n.attrs[a] ELSE <<>>

CheckExcluded(t, i) ==
    If(t[i].tag \in EXCLUDED_ELEMENTS,
       <<Finding("Excluded Element", "Error", t[i].tag)>>)

CheckTitle(t, i) ==
    LET own == Find(t, i, "title")
        bookinfo == Find(t, i, "bookinfo")
        title_elem == IF own = None /\ t[i].tag = "book" /\ bookinfo # None
                      THEN Find(t, bookinfo, "title") ELSE own
    IN  If(t[i].tag \in TITLE_REQUIRED /\ title_elem = None,
           <<Finding("Missing Title", "Error", t[i].tag)>>)

CheckAttributes(t, i) ==
    If(t[i].tag \in DOMAIN REQUIRED_ATTRIBUTES,
       LET attrs == REQUIRED_ATTRIBUTES[t[i].tag]
       IN  SelectSeq([k \in 1..Len(attrs) |->
                         IF HasAttr(t[i], attrs[k]) THEN <<>>
                         ELSE Finding("Missing Attribute", "Error", t[i].tag)],
                     LAMBDA f : f # <<>>))

CheckId(t, i, seen_ids) ==
    LET elem_id == Get(t[i], "id")
    IN  If(t[i].tag \in ID_PATTERN_TAGS /\ elem_id # <<>>,
           If(elem_id \in seen_ids,
              <<Finding("Duplicate ID", "Error", t[i].tag)>>)
           \o If(~IdPatternMatches(t[i].tag, elem_id),
                 <<Finding("Invalid ID Format", "Warning", t[i].tag)>>))

SeenAfter(t, i, seen_ids) ==
    IF t[i].tag \in ID_PATTERN_TAGS /\ Get(t[i], "id") # <<>>
    THEN seen_ids \cup {Get(t[i], "id")} ELSE seen_ids

ValidateFigure(t, i) ==
    LET mediaobj == Find(t, i, "mediaobject")
        imgobj == IF mediaobj = None THEN None ELSE Find(t, mediaobj, "imageobject")
        imgdata == IF imgobj = None THEN None ELSE Find(t, imgobj, "imagedata")
    IN  If(mediaobj = None \/ imgobj = None \/ imgdata = None,
           <<Finding("Invalid Figure Structure", "Error",
                     IF mediaobj = None THEN "mediaobject"
                     ELSE IF imgobj = None THEN "imageobject" ELSE "imagedata")>>)

\* cols.isdigit() and int(cols) >= 1
IsPositiveInteger(cols) ==
    cols # <<>> /\ AllDigits(cols, 1, Len(cols)) /\ ToInt(cols) >= 1

\* elem.findall('.//tag') for the HTML table tags
HtmlDescendants(t, i) ==
    SelectSeq(Tail(Walk(t, i)), LAMBDA d : t[d].tag \in {"tr", "td", "th"})

ValidateTable(t, i) ==
    LET tgroup == Find(t, i, "tgroup")
    IN  IF tgroup = None
        THEN <<Finding("Invalid Table Structure", "Error", "tgroup")>>
        ELSE If(~HasAttr(t[tgroup], "cols"),
                <<Finding("Missing Attribute", "Error", "tgroup")>>)
             \o If(HasAttr(t[tgroup], "cols")
                     /\ ~IsPositiveInteger(t[tgroup].attrs["cols"]),
                   <<Finding("Invalid Attribute Value", "Error", "tgroup")>>)
             \o If(HtmlDescendants(t, i) # <<>>,
                   <<Finding("Invalid Table Format", "Error", "table")>>)
             \o If(Find(t, tgroup, "tbody") = None,
                   <<Finding("Invalid Table Structure", "Warning", "tbody")>>)

ValidateSectionHierarchy(t, i) ==
    LET parent == Parent(t, i)
    IN  If(parent # None,
           If(t[i].tag = "sect2" /\ t[parent].tag # "sect1",
              <<Finding("Invalid Section Hierarchy", "Error", "sect2")>>)
           \o If(t[i].tag = "sect3" /\ t[parent].tag # "sect2",
                 <<Finding("Invalid Section Hierarchy", "Error", "sect3")>>))

MULTIMEDIA == <<"m", "u", "l", "t", "i", "m", "e", "d", "i", "a", "/">>

\* sub in s
Contains(s, sub) == \E at \in 1..Len(s) : IsPrefixAt(s, at, sub)

RECURSIVE Remove(_, _)
\* s.replace(sub, '')
Remove(s, sub) ==
    IF s = <<>> THEN <<>>
    ELSE IF IsPrefixAt(s, 1, sub)
    THEN Remove(SubSeq(s, Len(sub) + 1, Len(s)), sub)
    ELSE <<Head(s)>> \o Remove(Tail(s), sub)

IsWordChar(c) == c \notin {".", "/", " ", "-", "%"}

\* re.match(r'Ch\d{4}s\d{4}fg\d{2}\.\w+', filename)
FigureFilenameMatches(f) ==
    /\ IsPrefixAt(f, 1, <<"C", "h">>) /\ AllDigits(f, 3, 6)
    /\ IsPrefixAt(f, 7, <<"s">>) /\ AllDigits(f, 8, 11)
    /\ IsPrefixAt(f, 12, <<"f", "g">>) /\ AllDigits(f, 14, 15)
    /\ IsPrefixAt(f, 16, <<".">>) /\ Len(f) >= 17 /\ IsWordChar(f[17])

ValidateImagedata(t, i) ==
    LET fileref == Get(t[i], "fileref")
    IN  IF fileref = <<>>
        THEN <<Finding("Missing Attribute", "Error", "imagedata")>>
        ELSE If(Get(t[i], "width") = <<>>,
                <<Finding("Missing Attribute", "Warning", "imagedata")>>)
             \o If(Get(t[i], "scalefit") = <<>>,
                   <<Finding("Missing Attribute", "Warning", "imagedata")>>)

VerifyImagedata(t, i) ==
    LET fileref == Get(t[i], "fileref")
    IN  If(t[i].tag = "imagedata" /\ fileref # <<>> /\ Contains(fileref, MULTIMEDIA)
             /\ ~FigureFilenameMatches(Remove(fileref, MULTIMEDIA)),
           <<[fix_type |-> "Figure Naming",
              filename |-> Remove(fileref, MULTIMEDIA)]>>)

\* the findings _validate_element appends for element i itself
ElementFindings(t, i, seen_ids) ==
    CheckExcluded(t, i) \o CheckTitle(t, i) \o CheckAttributes(t, i)
    \o CheckId(t, i, seen_ids)
    \o If(t[i].tag = "figure", ValidateFigure(t, i))
    \o If(t[i].tag = "table", ValidateTable(t, i))
    \o If(t[i].tag \in {"sect2", "sect3"}, ValidateSectionHierarchy(t, i))
    \o If(t[i].tag = "imagedata", ValidateImagedata(t, i))

RECURSIVE ValidateElements(_, _, _, _, _)
\* _validate_element over the elements in document order (order[k..])
ValidateElements(t, order, k, seen_ids, acc) ==
    IF k > Len(order) THEN acc
    ELSE ValidateElements(t, order, k + 1, SeenAfter(t, order[k], seen_ids),
            [errors |-> acc.errors \o ElementFindings(t, order[k], seen_ids),
             verifications |-> acc.verifications \o VerifyImagedata(t, order[k])])

\* _check_doctype
CheckDoctype(xml_content) ==
    LET doctypes == SelectSeq(xml_content, LAMBDA tok : tok.k = "doctype")
    IN  IF doctypes = <<>>
        THEN <<Finding("Missing DOCTYPE", "Warning", "")>>
        ELSE If(\A k \in 1..Len(doctypes) :
                    /\ doctypes[k].system # RITTDOC_DOCTYPE_SYSTEM
                    /\ doctypes[k].public # RITTDOC_DOCTYPE_PUBLIC,
                <<Finding("Invalid DOCTYPE", "Warning", "")>>)

WithSeverity(findings, severity) ==
    SelectSeq(findings, LAMBDA f : f.severity = severity)

\* the result returned when etree.fromstring raises: the defaults of
\* ValidationResult, one Error appended, total_errors = 1
ParseFailed ==
    [errors |-> <<Finding("XML Parse Error", "Error", "")>>,
     warnings |-> <<>>, info |-> <<>>, verifications |-> <<>>,
     is_valid |-> FALSE, total_errors |-> 1, total_warnings |-> 0]

\* validate does not return: this exception leaves it
Raised(exception) == [raised |-> exception]

Returned(r) == "raised" \notin DOMAIN r

\* a categorization in which Warnings count against validity
CategorizeWarningsInvalid(all, verifications) ==
    [errors |-> WithSeverity(all, "Error"),
     warnings |-> WithSeverity(all, "Warning"),
     info |-> SelectSeq(all, LAMBDA f : f.severity \notin {"Error", "Warning"}),
     verifications |-> verifications,
     is_valid |-> Len(WithSeverity(all, "Error")) + Len(WithSeverity(all, "Warning")) = 0,
     total_errors |-> Len(WithSeverity(all, "Error")),
     total_warnings |-> Len(WithSeverity(all, "Warning"))]

\* "Categorize results" and the totals
Categorize(all, verifications) ==
    [errors |-> WithSeverity(all, "Error"),
     warnings |-> WithSeverity(all, "Warning"),
     info |-> SelectSeq(all, LAMBDA f : f.severity \notin {"Error", "Warning"}),
     verifications |-> verifications,
     is_valid |-> Len(WithSeverity(all, "Error")) = 0,
     total_errors |-> Len(WithSeverity(all, "Error")),
     total_warnings |-> Len(WithSeverity(all, "Warning"))]

\* self.errors after the DOCTYPE check, categorized
Checked(xml_content, r) ==
    Categorize(r.errors \o CheckDoctype(xml_content), r.verifications)

\* validate from "Run all validation checks" on.  With recover=True the
\* parser returns no root for a text that holds no element, and
\* _validate_element(None) raises AttributeError at elem.tag
ValidateRoot(xml_content, root) ==
    IF root = <<>> THEN Raised("AttributeError")
    ELSE Checked(xml_content,
                 ValidateElements(root, Walk(root, Root), 1, {},
                                  [errors |-> <<>>, verifications |-> <<>>]))

\* RittDocValidator.validate.  etree.fromstring raises on the empty text
\* only (XMLSyntaxError, caught)
Validate(xml_content) ==
    IF xml_content = <<>> THEN ParseFailed
    ELSE ValidateRoot(xml_content, FromString(xml_content))

-----------------------------------------------------------------------------
(* PackageGenerator *)

BOOK_XML == <<"B", "o", "o", "k", ".", "x", "m", "l">>
DOT_XML == <<".", "x", "m", "l">>
METADATA_CSV == <<"m", "e", "t", "a", "d", "a", "t", "a", ".", "c", "s", "v">>
BOOK_METADATA_CSV == <<"b", "o", "o", "k", "_">> \o METADATA_CSV

\* root.findall('chapter'): the direct chapter children, in order
Chapters(t) == SelectSeq(t[Root].kids, LAMBDA c : t[c].tag = "chapter")

RECURSIVE ChapterFiles(_, _, _)
\* the dict chapter_files, as the sequence of its (key, value) items
ChapterFiles(t, chapters, files) ==
    IF chapters = <<>> THEN files
    ELSE LET ch_id == Get(t[Head(chapters)], "id")
             item == [id |-> ch_id, xml |-> ToString_(t, Head(chapters))]
             next == IF ch_id = <<>> THEN files
                     ELSE IF \E k \in 1..Len(files) : files[k].id = ch_id
                     THEN [k \in 1..Len(files) |->
                             IF files[k].id = ch_id THEN item ELSE files[k]]
                     ELSE Append(files, item)
         IN  ChapterFiles(t, Tail(chapters), next)

\* for chapter in chapters: root.remove(chapter)
RemoveChapters(t) ==
    [t EXCEPT ![Root].kids = SelectSeq(@, LAMBDA c : t[c].tag # "chapter")]

RECURSIVE InsertBeforeClose(_, _)
\* shell_content.replace('</book>', f'{entity_refs}\n</book>')
InsertBeforeClose(toks, refs) ==
    IF toks = <<>> THEN <<>>
    ELSE IF Head(toks).k = "close" /\ Head(toks).tag = "book"
    THEN refs \o <<Head(toks)>> \o InsertBeforeClose(Tail(toks), refs)
    ELSE <<Head(toks)>> \o InsertBeforeClose(Tail(toks), refs)

\* <!ENTITY {ch_id} SYSTEM "{ch_id}.xml">
EntityDeclaration(ch_id) == [name |-> ch_id, system |-> ch_id \o DOT_XML]

\* _build_book_shell
BuildBookShell(t, chapter_files) ==
    LET ids == [k \in 1..Len(chapter_files) |-> chapter_files[k].id]
        refs == [k \in 1..Len(ids) |-> [k |-> "entityref", name |-> ids[k]]]
    IN  <<[k |-> "xmldecl"],
          [k |-> "doctype", public |-> RITTDOC_DOCTYPE_PUBLIC,
           system |-> RITTDOC_DOCTYPE_SYSTEM,
           entities |-> [k \in 1..Len(ids) |-> EntityDeclaration(ids[k])]]>>
        \o InsertBeforeClose(ToString_(t, Root), refs)

\* the images written to the archive: those with a non-empty payload
Emitted(imgs, store) == SelectSeq(imgs, LAMBDA i : store[i].data # <<>>)

NoPackage ==
    [success |-> FALSE, package_path |-> FALSE, files_included |-> <<>>,
     errors |-> <<>>, chapter_count |-> 0, media_count |-> 0, zip |-> <<>>]

\* an exception handler that records no message
ExceptSwallowed(r, exception) == [r EXCEPT !.success = FALSE]

\* except Exception as e: result.errors.append(str(e)); result.success = False
Except(r, exception) ==
    [r EXCEPT !.errors = Append(@, exception), !.success = FALSE]

\* create_package.  io_ok: creating the directory and the archive succeeds.
\* etree.fromstring raises on the empty text; for a text without an element
\* it returns None and root.findall raises.
\* csv.writer on a BytesIO raises TypeError at the first row written, so
\* both sidecar writers raise when they are reached.
CreatePackage(xml_content, imgs, store, has_content, io_ok) ==
    LET parsed == FromString(xml_content)
        chapter_files == ChapterFiles(parsed, Chapters(parsed), <<>>)
        book_xml == BuildBookShell(RemoveChapters(parsed), chapter_files)
        emitted == Emitted(imgs, store)
        entries ==
            <<[name |-> BOOK_XML, data |-> book_xml]>>
            \o [k \in 1..Len(chapter_files) |->
                   [name |-> chapter_files[k].id \o DOT_XML,
                    data |-> chapter_files[k].xml]]
            \o [k \in 1..Len(emitted) |->
                   [name |-> MULTIMEDIA \o store[emitted[k]].filename,
                    data |-> store[emitted[k]].data]]
        written ==
            [NoPackage EXCEPT
                !.files_included = [k \in 1..Len(entries) |-> entries[k].name],
                !.chapter_count = Len(chapter_files),
                !.media_count = Len(emitted),
                !.zip = entries]
    IN  IF ~io_ok THEN Except(NoPackage, "OSError")
        ELSE IF xml_content = <<>> THEN Except(NoPackage, "XMLSyntaxError")
        ELSE IF parsed = <<>> THEN Except(NoPackage, "AttributeError")
        ELSE IF emitted # <<>> \/ has_content THEN Except(written, "TypeError")
        ELSE [written EXCEPT !.success = TRUE, !.package_path = TRUE]

-----------------------------------------------------------------------------
(* Inputs *)

BoundedSeq(S, n) == UNION {[1..k -> S] : k \in 0..n}

Block(text, level, list_type) ==
    [text |-> text, level |-> level, list_type |-> list_type]

ParagraphElement(block) == [element_type |-> "paragraph", paragraph |-> block]
ImageElement(img) == [element_type |-> "image", image |-> img]
TableElement(table) == [element_type |-> "table", table |-> table]

Heading(level) ==
    Block(CASE level = 1 -> <<"Intro">>
            [] level = 2 -> <<"Sect", " ", "A">>
            [] level = 3 -> <<"Sub">>
            [] OTHER -> <<"Deep">>,
          level, NoListType)

Hello == Block(<<"Hello">>, 0, NoListType)
Empty == Block(<<>>, 0, NoListType)
Bullet == Block(<<"Item">>, 0, "bullet")
Numbered == Block(<<"Item">>, 0, "number")

\* the ExtractedImage objects of a document, by identity
Payloads ==
    [img \in {"img1", "img2"} |->
        IF img = "img1"
        THEN [filename |-> <<"i", "1", ".", "p", "n", "g">>, data |-> <<"x">>,
              caption |-> <<>>]
        ELSE [filename |-> <<"i", "2", ".", "j", "p", "g">>, data |-> <<"y">>,
              caption |-> <<"Plot">>]]

Grid == << <<<<"a">>, <<"b">>>>, <<<<"c">>>> >>

\* a grid with rows of unequal length, one header row
PlainTable ==
    [rows |-> Grid, header_rows |-> 1, caption |-> <<>>, num_cols |-> 2]
\* a grid whose only row is empty, no declared column count
EmptyRowTable ==
    [rows |-> << <<>> >>, header_rows |-> 0, caption |-> <<"Data">>, num_cols |-> 0]

Elements ==
    {ParagraphElement(Heading(level)) : level \in 1..4}
    \cup {ParagraphElement(Hello), ParagraphElement(Bullet)}
    \cup {ImageElement(img) : img \in DOMAIN Payloads}
    \cup {TableElement(PlainTable), TableElement(EmptyRowTable)}

\* documents of non-heading paragraphs only
Paragraphs ==
    {ParagraphElement(b) : b \in {Hello, Empty, Bullet, Numbered}}

\* the end-to-end scenario: Heading1 "Intro", Paragraph "Hello", Heading2
\* "Sect A", Image (.png)
Scenario ==
    <<ParagraphElement(Heading(1)),
      ParagraphElement(Hello),
      ParagraphElement(Heading(2)), ImageElement("img1")>>

Titles == {<<>>, <<"Doc">>}

\* content.images, content.text_blocks as the extractor fills them: one
\* entry per image element, one per paragraph element, in document order
ImagesOf(elements) ==
    LET imgs == SelectSeq(elements, LAMBDA e : e.element_type = "image")
    IN  [k \in 1..Len(imgs) |-> imgs[k].image]

TextBlocksOf(elements) ==
    LET ps == SelectSeq(elements, LAMBDA e : e.element_type = "paragraph")
    IN  [k \in 1..Len(ps) |-> ps[k].paragraph]

Extracted(title, elements) ==
    [title |-> title, elements |-> elements, images |-> ImagesOf(elements),
     text_blocks |-> TextBlocksOf(elements)]

-----------------------------------------------------------------------------
(* The pipeline: generate, create_package, validate *)

\* root = etree.Element("book"); root.append(self._create_bookinfo(content))
\* (of the children of bookinfo only the title is represented)
NewBook(title) ==
    <<[Node("book", NoAttrs, <<>>) EXCEPT !.kids = <<2>>],
      [Node("bookinfo", NoAttrs, <<>>) EXCEPT !.kids = <<3>>],
      Node("title", NoAttrs,
           IF title # <<>> THEN title ELSE <<"Untitled", " ", "Document">>)>>

\* the state when generate enters _process_elements, for a generator built
\* with this multimedia_prefix
StartedWith(c, prefix) ==
    /\ content = c
    /\ images = Payloads
    /\ self = NewGenerator(prefix)
    /\ loc = NoLocals
    /\ tree = NewBook(c.title)
    /\ pos = 0
    /\ pc = "process"
    /\ writes = [img \in DOMAIN Payloads |-> 0]
    /\ xml = <<>>
    /\ package = NoPackage
    /\ result = <<>>
    /\ prev = <<>>
    /\ runs = <<>>
    /\ job = NoJob

\* generate is called on a content whose elements are any sequence of at
\* most MaxElems members of alphabet, images and text_blocks listing them as
\* the extractor does
\* the orchestrator's generator: DocBookGenerator(multimedia_prefix="multimedia/")
Started(c) == StartedWith(c, MULTIMEDIA)

InitOver(alphabet) ==
    \E title \in Titles :
        \E elements \in BoundedSeq(alphabet, MaxElems) :
            Started(Extracted(title, elements))

Init ==
    \/ InitOver(Elements)
    \/ \E title \in Titles : Started(Extracted(title, Scenario))

Bundle == [self |-> self, loc |-> loc, tree |-> tree, images |-> images,
           writes |-> writes]

Current == content.elements[pos + 1]

\* one iteration of the loop of _process_elements, ending in state b
Step(b) ==
    /\ self' = b.self
    /\ loc' = b.loc
    /\ tree' = b.tree
    /\ images' = b.images
    /\ writes' = b.writes
    /\ pos' = pos + 1
    /\ UNCHANGED <<content, pc, xml, package, result, prev, runs, job>>

ProcessParagraph ==
    /\ pc = "process" /\ pos < Len(content.elements)
    /\ Current.element_type = "paragraph"
    /\ Step(Paragraph(Bundle, Current.paragraph, content.title))

ProcessImage ==
    /\ pc = "process" /\ pos < Len(content.elements)
    /\ Current.element_type = "image"
    /\ Step(Image(Bundle, Current.image, content.title))

ProcessTable ==
    /\ pc = "process" /\ pos < Len(content.elements)
    /\ Current.element_type = "table"
    /\ Step(Table(Bundle, Current.table, content.title))

\* the rest of generate: resolve the references, serialize, return
Finish ==
    /\ pc = "process" /\ pos = Len(content.elements)
    /\ prev' = tree
    /\ tree' = PostProcessReferences(self, tree)
    /\ xml' = SerializeXml(tree')
    /\ pc' = "generated"
    /\ UNCHANGED <<content, images, self, loc, pos, writes, package, result, runs, job>>

\* DocxOrchestrator.convert, step 4
Package ==
    /\ pc = "generated"
    /\ package' = CreatePackage(xml, content.images, images, TRUE, TRUE)
    /\ pc' = "packaged"
    /\ UNCHANGED <<content, images, self, loc, tree, pos, writes, xml, result, prev, runs, job>>

\* DocxOrchestrator.convert, step 5
ValidateXml ==
    /\ pc = "packaged"
    /\ result' = Validate(xml)
    /\ pc' = "validated"
    /\ UNCHANGED <<content, images, self, loc, tree, pos, writes, xml, package, prev, runs, job>>

Next ==
    \/ ProcessParagraph
    \/ ProcessImage
    \/ ProcessTable
    \/ Finish
    \/ Package
    \/ ValidateXml

Spec == Init /\ [][Next]_vars

-----------------------------------------------------------------------------
(* Properties of the generated document *)

NUMBERED_TAGS == {"chapter", "sect1", "sect2", "sect3", "figure", "table"}

\* the chapter/sect1/sect2/sect3/figure/table nodes of t
NumberedNodes(t) == {i \in 1..Len(t) : t[i].tag \in NUMBERED_TAGS}

Generated == pc \in {"generated", "packaged", "validated"}

FindingsOf(type) ==
    SelectSeq(result.errors \o result.warnings, LAMBDA f : f.error_type = type)

\* C1: no two chapter/sect1/sect2/sect3/figure/table nodes of the tree built
\* by generate carry the same id, and the validator reports no "Duplicate ID"
\* finding on the generator's output
IdsUnique ==
    /\ Generated =>
          \A i, j \in NumberedNodes(tree) :
              i # j => Get(tree[i], "id") # Get(tree[j], "id")
    /\ pc = "validated" => FindingsOf("Duplicate ID") = <<>>

\* C2: generate completes on every input and the validator finds no
\* Error-severity finding in its serialized output (is_valid is true)
OutputValid ==
    pc = "validated" =>
        /\ result.is_valid
        /\ result.total_errors = 0
        /\ result.errors = <<>>

\* the tag a section's parent must have
ParentTag(tag) ==
    CASE tag = "sect1" -> "chapter"
      [] tag = "sect2" -> "sect1"
      [] tag = "sect3" -> "sect2"

SectionNodes(t) == {i \in 1..Len(t) : t[i].tag \in {"sect1", "sect2", "sect3"}}

\* C3: at every point of the build every sect1 is a direct child of a
\* chapter, every sect2 of a sect1 and every sect3 of a sect2, whatever the
\* order of the heading levels, and the validator reports no "Invalid Section
\* Hierarchy" finding on the generator's output
HierarchyStrict ==
    /\ \A i \in SectionNodes(tree) :
          /\ Parent(tree, i) # None
          /\ tree[Parent(tree, i)].tag = ParentTag(tree[i].tag)
    /\ pc = "validated" => FindingsOf("Invalid Section Hierarchy") = <<>>

\* a document that opens with a heading of level >= 3 has been generated and
\* validated, its sect3 or sect2 sitting under auto-created ancestors
HierarchyAutoCreated ==
    /\ pc = "validated"
    /\ content.elements # <<>>
    /\ content.elements[1].element_type = "paragraph"
    /\ content.elements[1].paragraph.level >= 3
    /\ \E i \in SectionNodes(tree) :
          /\ tree[i].tag \in {"sect2", "sect3"}
          /\ tree[Find(tree, Parent(tree, i), "title")].text
                \in {<<"Section">>, <<"Subsection">>}

\* the nodes with this tag in the subtree of i, in document order
Within(t, i, tag) == SelectSeq(Walk(t, i), LAMBDA n : t[n].tag = tag)

LastTwo(s) == SubSeq(s, Len(s) - 1, Len(s))

\* the k-th chapter has id ch{k:04}, and its first figure, table and sect1
\* are numbered 01
PerChapterNumbering ==
    LET chapters == Chapters(tree)
    IN  /\ self.chapter_counter = Len(chapters)
        /\ \A k \in 1..Len(chapters) :
              LET c == chapters[k]
                  ch_id == Get(tree[c], "id")
                  figures == Within(tree, c, "figure")
                  tables == Within(tree, c, "table")
                  sect1s == Within(tree, c, "sect1")
              IN  /\ ch_id = <<"c", "h">> \o Fmt04(k)
                  /\ figures # <<>> =>
                        LastTwo(Get(tree[figures[1]], "id")) = <<"0", "1">>
                  /\ tables # <<>> =>
                        LastTwo(Get(tree[tables[1]], "id")) = <<"0", "1">>
                  /\ sect1s # <<>> =>
                        Get(tree[sect1s[1]], "id")
                            = ch_id \o <<"s", "0", "1", "0", "0">>

\* a step opens at most one chapter; the chapter counter never decreases and
\* grows by 1 when a chapter is opened, and the per-chapter counters then
\* count what the new chapter holds, nothing of the earlier chapters
ChapterOpens ==
    LET before == Chapters(tree)
        after == Chapters(tree')
        new == after[Len(after)]
    IN  /\ self'.chapter_counter \in {self.chapter_counter, self.chapter_counter + 1}
        /\ Len(after) > Len(before) =>
              /\ Len(after) = Len(before) + 1
              /\ self'.chapter_counter = self.chapter_counter + 1
              /\ self'.sect1_counter = Len(Within(tree', new, "sect1"))
              /\ self'.sect2_counter = Len(Within(tree', new, "sect2"))
              /\ self'.sect3_counter = Len(Within(tree', new, "sect3"))
              /\ self'.figure_counter = Len(Within(tree', new, "figure"))
              /\ self'.table_counter = Len(Within(tree', new, "table"))

\* C4: numbering resets per chapter: when a chapter is opened the sect1,
\* sect2, sect3, figure and table counters restart from 0, so the first
\* figure, table and sect1 of every chapter are numbered 01, while the chapter
\* counter grows by exactly 1 per chapter and is never reset
NumberingResets == [](PerChapterNumbering) /\ [][ChapterOpens]_vars

\* a second chapter was opened after a chapter holding a figure, and holds a
\* figure of its own
SecondChapterFigure ==
    LET chapters == Chapters(tree)
    IN  /\ Len(chapters) = 2
        /\ Within(tree, chapters[1], "figure") # <<>>
        /\ Within(tree, chapters[2], "figure") # <<>>
        /\ self.global_figure_counter = 2
        /\ self.figure_counter = 1

\* the nearest ancestor of i with this tag, or None
RECURSIVE Ancestor(_, _, _)
Ancestor(t, i, tag) ==
    LET p == Parent(t, i)
    IN  IF p = None THEN None
        ELSE IF t[p].tag = tag THEN p
        ELSE Ancestor(t, p, tag)

\* the section code read off the position of node i in the tree: the rank of
\* its sect1 among the sect1 of the chapter and of its sect2 among the sect2
\* of that sect1
SectionCodeAt(t, i) ==
    LET chapter == Ancestor(t, i, "chapter")
        sect1 == Ancestor(t, i, "sect1")
        sect2 == Ancestor(t, i, "sect2")
    IN  IF sect1 = None THEN <<"s", "0", "0", "0", "0">>
        ELSE <<"s">> \o Fmt02(IndexOf(Within(t, chapter, "sect1"), sect1))
             \o (IF sect2 = None THEN <<"0", "0">>
                 ELSE Fmt02(IndexOf(Within(t, sect1, "sect2"), sect2)))

\* the chapter number, section code and figure number of figure i, read off
\* its position in the tree
FigureCodeAt(t, i) ==
    LET chapter == Ancestor(t, i, "chapter")
    IN  Fmt04(IndexOf(Chapters(t), chapter)) \o SectionCodeAt(t, i)
        \o <<"f", "g">> \o Fmt02(IndexOf(Within(t, chapter, "figure"), i))

Fileref(t, figure) == Get(t[Within(t, figure, "imagedata")[1]], "fileref")

\* the j-th figure of the tree has id ch{code} and references
\* multimedia/Ch{code}{ext}, ext being the extension the j-th image element's
\* payload had on input
FigureNamed(j) ==
    LET figure == Within(tree, Root, "figure")[j]
        code == FigureCodeAt(tree, figure)
        ext == Suffix(Payloads[content.images[j]].filename)
    IN  /\ Get(tree[figure], "id") = <<"c", "h">> \o code
        /\ Fileref(tree, figure) = MULTIMEDIA \o <<"C", "h">> \o code \o ext
        /\ j = Len(Within(tree, Root, "figure")) =>
              images[content.images[j]].filename = <<"C", "h">> \o code \o ext

ScenarioIds ==
    /\ Get(tree[Within(tree, Root, "chapter")[1]], "id")
          = <<"c", "h", "0", "0", "0", "1">>
    /\ Get(tree[Within(tree, Root, "sect1")[1]], "id")
          = <<"c", "h", "0", "0", "0", "1", "s", "0", "1", "0", "0">>
    /\ Get(tree[Within(tree, Root, "figure")[1]], "id")
          = <<"c", "h", "0", "0", "0", "1", "s", "0", "1", "0", "0",
              "f", "g", "0", "1">>
    /\ images["img1"].filename
          = <<"C", "h", "0", "0", "0", "1", "s", "0", "1", "0", "0",
              "f", "g", "0", "1", ".", "p", "n", "g">>

-----------------------------------------------------------------------------
(* Documents without headings *)

InitParagraphs == InitOver(Paragraphs)

NextParagraphs ==
    \/ ProcessParagraph
    \/ Finish
    \/ Package
    \/ ValidateXml

SpecParagraphs == InitParagraphs /\ [][NextParagraphs]_vars

OnlyPlainParagraphs ==
    \A k \in 1..Len(content.elements) :
        /\ content.elements[k].element_type = "paragraph"
        /\ content.elements[k].paragraph.level = 0

\* exactly one chapter, with id ch0001, titled with the document title or
\* "Content"
OneDefaultChapter ==
    LET chapters == Within(tree, Root, "chapter")
    IN  /\ Len(chapters) = 1
        /\ Get(tree[chapters[1]], "id") = <<"c", "h", "0", "0", "0", "1">>
        /\ Find(tree, chapters[1], "title") # None
        /\ tree[Find(tree, chapters[1], "title")].text
              = IF content.title # <<>> THEN content.title ELSE <<"Content">>

-----------------------------------------------------------------------------
(* The generation test of test_basic.py *)

TestTitle == <<"Test", " ", "Document">>

\* the text_blocks of the test
TestBlocks ==
    <<Block(<<"Introduction">>, 1, NoListType),
      Block(<<"This", " ", "is", " ", "a", " ", "test", " ", "paragraph.">>, 0,
            NoListType),
      Block(<<"Section", " ", "1">>, 2, NoListType),
      Block(<<"More", " ", "content", " ", "here.">>, 0, NoListType),
      Block(<<"Bullet", " ", "item", " ", "1">>, 0, "bullet"),
      Block(<<"Bullet", " ", "item", " ", "2">>, 0, "bullet")>>

\* DocxContent(title=..., text_blocks=[...], tables=[], images=[]): the
\* elements field keeps its default, the empty list
Supplied(title, text_blocks) ==
    [title |-> title, elements |-> <<>>, images |-> <<>>,
     text_blocks |-> text_blocks]

ElementsOf(text_blocks) ==
    [k \in 1..Len(text_blocks) |-> ParagraphElement(text_blocks[k])]

TestAlphabet == {Heading(1), Heading(2), Hello, Bullet}

\* DocBookGenerator().generate(content), for a body that reaches the
\* generator in text_blocks alone, as in the test, or in elements as well, as
\* from the extractor
InitBasicTest ==
    \E title \in {<<>>, TestTitle} :
        \E text_blocks \in BoundedSeq(TestAlphabet, MaxElems) \cup {TestBlocks} :
            \/ StartedWith(Supplied(title, text_blocks), <<>>)
            \/ StartedWith(Extracted(title, ElementsOf(text_blocks)), <<>>)

NextBasicTest ==
    \/ ProcessParagraph
    \/ Finish

SpecBasicTest == InitBasicTest /\ [][NextBasicTest]_vars

\* '<tag' in xml_output, for a tag that is no prefix of another tag in use
HasStartTag(toks, tag) ==
    \E k \in 1..Len(toks) : toks[k].k \in {"open", "empty"} /\ toks[k].tag = tag

\* '<tag>' in xml_output
HasBareStartTag(toks, tag) ==
    \E k \in 1..Len(toks) :
        toks[k].k = "open" /\ toks[k].tag = tag /\ toks[k].attrs = NoAttrs

\* '<title>text</title>' in xml_output
HasTitle(toks, text) ==
    \E k \in 1..(Len(toks) - 2) :
        /\ toks[k].k = "open" /\ toks[k].tag = "title" /\ toks[k].attrs = NoAttrs
        /\ toks[k + 1] = [k |-> "text", text |-> text]
        /\ toks[k + 2] = [k |-> "close", tag |-> "title"]

SuppliedAsInTest ==
    /\ content.elements = <<>>
    /\ \E k \in 1..Len(content.text_blocks) : content.text_blocks[k].level = 1

\* C6: for a content supplied as the test supplies it, with a level-1 heading
\* among its text_blocks, the XML that generate returns holds the XML
\* declaration, <book>, <bookinfo>, the document title and a <chapter> element
TestOutputHasChapter ==
    (pc = "generated" /\ SuppliedAsInTest /\ content.title # <<>>) =>
        /\ xml[1].k = "xmldecl"
        /\ HasBareStartTag(xml, "book")
        /\ HasBareStartTag(xml, "bookinfo")
        /\ HasTitle(xml, content.title)
        /\ HasStartTag(xml, "chapter")

-----------------------------------------------------------------------------
(* The image payloads between the builder and the packager *)

RECURSIVE StripPrefix(_, _)
\* fileref minus the multimedia prefix
StripPrefix(name, prefix) ==
    IF prefix = <<>> THEN name
    ELSE IF name # <<>> /\ Head(name) = Head(prefix)
    THEN StripPrefix(Tail(name), Tail(prefix))
    ELSE name

Referenced == {content.images[j] : j \in 1..Len(content.images)}

\* C8: in one generate run the filename of every payload is written exactly
\* once, and afterwards the media reference of the figure built from each
\* image element, minus the multimedia prefix, is the filename the packager
\* reads from that element's payload, so every referenced file is emitted in
\* the package, also when one payload is referenced by several image elements
FilenameWrittenOnce ==
    /\ Generated =>
          /\ \A img \in Referenced : writes[img] = 1
          /\ \A j \in 1..Len(content.images) :
                StripPrefix(Fileref(tree, Within(tree, Root, "figure")[j]),
                            MULTIMEDIA)
                    = images[content.images[j]].filename
    /\ pc \in {"packaged", "validated"} =>
          \A j \in 1..Len(content.images) :
              \E k \in 1..Len(package.zip) :
                  package.zip[k].name
                      = Fileref(tree, Within(tree, Root, "figure")[j])

-----------------------------------------------------------------------------
(* The reference resolver on paragraphs that cite a figure and a table *)

MaxSegs == 4

\* pieces of paragraph text: resolvable references to figure 1 and table 1,
\* a reference to a figure that does not exist, a bold reference, and text
\* that is no reference by itself
Segments ==
    {<<"Figure", " ", "1">>, <<"Table", " ", "1">>, <<"Figure", " ", "9">>,
     <<BOLD, "Figure", " ", "1", BOLD>>,
     <<"Table", " ">>, <<" ", "1", " ">>, <<" ", "and", " ">>}

RECURSIVE Concat(_)
Concat(segs) == IF segs = <<>> THEN <<>> ELSE Head(segs) \o Concat(Tail(segs))

\* a chapter with one figure, one table and one paragraph
Citing(text) ==
    <<ParagraphElement(Heading(1)), ImageElement("img1"),
      TableElement(PlainTable), ParagraphElement(Block(text, 0, NoListType))>>

InitRef ==
    \E segs \in BoundedSeq(Segments, MaxSegs) :
        Started(Extracted(<<>>, Citing(Concat(segs))))

\* _post_process_references run once more on the finished tree, with the
\* cross-reference maps of the run
ResolveAgain ==
    /\ pc = "generated"
    /\ prev' = tree
    /\ tree' = PostProcessReferences(self, tree)
    /\ pc' = "resolved again"
    /\ UNCHANGED <<content, images, self, loc, pos, writes, xml, package, result, runs, job>>

NextRef ==
    \/ ProcessParagraph
    \/ ProcessImage
    \/ ProcessTable
    \/ Finish
    \/ ResolveAgain

SpecRef == InitRef /\ [][NextRef]_vars

RECURSIVE Flatten(_, _)
RECURSIVE FlattenKids(_, _, _)
\* the text of node i, then of each child in document order followed by the
\* child's tail
Flatten(t, i) == t[i].text \o FlattenKids(t, t[i].kids, 1)
FlattenKids(t, ks, k) ==
    IF k > Len(ks) THEN <<>>
    ELSE Flatten(t, ks[k]) \o t[ks[k]].tail \o FlattenKids(t, ks, k + 1)

Paras(t) == {i \in 1..Len(t) : t[i].tag = "para"}

\* C9: after resolution, the leading text of a paragraph followed by each
\* link's display text and tail text in document order is the paragraph's
\* original string, however many resolvable references it holds
SplitReproducesText ==
    pc = "generated" =>
        \A para \in Paras(prev) : Flatten(tree, para) = Flatten(prev, para)

\* C10: a second run of _post_process_references on a finished tree, with
\* the same cross-reference maps, adds no link node and changes no text
ResolveIdempotent ==
    pc = "resolved again" => tree = prev

-----------------------------------------------------------------------------
(* Which references become links *)

\* the children of node i that carry this tag
KidsTagged(t, i, tag) == SelectSeq(t[i].kids, LAMBDA k : t[k].tag = tag)

\* the matches of ref_pattern in a string whose first number is a key of the
\* map its keyword selects
Resolvable(s, text) == ExtractLoop(s, text, 1, 0, <<>>, <<>>).links

RECURSIVE ResolvableInTails(_, _, _)
\* the number of such matches in the trailing text of these nodes
ResolvableInTails(s, t, nodes) ==
    IF nodes = <<>> THEN 0
    ELSE Len(Resolvable(s, t[Head(nodes)].tail))
            + ResolvableInTails(s, t, Tail(nodes))

\* the emphasis children of a paragraph whose trimmed text starts with a
\* match whose first number is a key of the map
ResolvableEmphasis(s, t, para) ==
    SelectSeq(KidsTagged(t, para, "emphasis"),
              LAMBDA e : MatchAndResolve(s, Strip(t[e].text)) # NoLink)

\* the references of a paragraph, as built, that the maps resolve
ResolvableReferences(s, t, para) ==
    Len(Resolvable(s, t[para].text)) + ResolvableInTails(s, t, t[para].kids)
        + Len(ResolvableEmphasis(s, t, para))

\* a link points at what the map of its keyword holds for its first number
LinkTargetsResolved(s, t) ==
    \A l \in 1..Len(t) :
        t[l].tag = "link" =>
            /\ MatchAndResolve(s, Strip(t[l].text)) # NoLink
            /\ t[l].attrs.linkend = MatchAndResolve(s, Strip(t[l].text))

\* C11: every reference in the text of a paragraph whose first number is a
\* key of the map chosen by its keyword is a link after the resolver pass,
\* with that map's value as its target, and no other text is a link
ResolvedIffInMap ==
    pc = "generated" =>
        /\ LinkTargetsResolved(self, tree)
        /\ \A para \in Paras(prev) :
              Len(KidsTagged(tree, para, "link"))
                  = ResolvableReferences(self, prev, para)

-----------------------------------------------------------------------------
(* Tables whose declared header-row count reaches or exceeds their rows *)

\* 3 header rows declared, 2 rows present
HeaderOnlyTable ==
    [rows |-> Grid, header_rows |-> 3, caption |-> <<>>, num_cols |-> 2]
\* as many header rows declared as rows present, no declared column count
AllHeaderTable ==
    [rows |-> Grid, header_rows |-> 2, caption |-> <<"Data">>, num_cols |-> 0]
\* 3 header rows declared, 2 rows without cells, no declared column count
HeaderOnlyEmptyRows ==
    [rows |-> << <<>>, <<>> >>, header_rows |-> 3, caption |-> <<>>,
     num_cols |-> 0]

Tables ==
    {ParagraphElement(Heading(1)), ParagraphElement(Hello)}
    \cup {TableElement(tb) : tb \in {PlainTable, HeaderOnlyTable, AllHeaderTable,
                                     HeaderOnlyEmptyRows}}

InitTables == InitOver(Tables)

NextTables ==
    \/ ProcessParagraph
    \/ ProcessTable
    \/ Finish
    \/ Package
    \/ ValidateXml

SpecTables == InitTables /\ [][NextTables]_vars

\* the ExtractedTable objects of the table elements, in document order
TablesOf(elements) ==
    LET tbs == SelectSeq(elements, LAMBDA e : e.element_type = "table")
    IN  [k \in 1..Len(tbs) |-> tbs[k].table]

RECURSIVE SeenIn(_, _)
\* seen_ids after _validate_element has visited these nodes
SeenIn(t, nodes) ==
    IF nodes = <<>> THEN {}
    ELSE SeenAfter(t, Head(nodes), SeenIn(t, Tail(nodes)))

\* the nodes visited before node i
Before(t, i) == SubSeq(Walk(t, Root), 1, IndexOf(Walk(t, Root), i) - 1)

RECURSIVE FindingsAt(_, _)
\* what _validate_element appends for these nodes of the document
FindingsAt(t, nodes) ==
    IF nodes = <<>> THEN <<>>
    ELSE ElementFindings(t, Head(nodes), SeenIn(t, Before(t, Head(nodes))))
            \o FindingsAt(t, Tail(nodes))

\* the findings about element i and the elements inside it
FindingsWithin(t, i) == FindingsAt(t, Walk(t, i))

NoBodyWarning == Finding("Invalid Table Structure", "Warning", "tbody")

\* the j-th table of the document was built all header and no body, and is
\* reported with the missing-body Warning and no Error
HeaderOnlyReported(t, j) ==
    LET table == TablesOf(content.elements)[j]
        node == Iter(t, "table")[j]
        tgroup == Find(t, node, "tgroup")
        thead == Find(t, tgroup, "thead")
        findings == FindingsWithin(t, node)
    IN  /\ Find(t, tgroup, "tbody") = None
        /\ thead # None
        /\ Len(KidsTagged(t, thead, "row")) = Len(table.rows)
        /\ WithSeverity(findings, "Error") = <<>>
        /\ WithSeverity(findings, "Warning") = <<NoBodyWarning>>
        /\ \E k \in 1..Len(result.warnings) : result.warnings[k] = NoBodyWarning

\* C12: a table whose declared header-row count exceeds its number of rows
\* is generated (the pipeline reaches the validator) with all rows in the
\* header block and no body block, and the validator reports for it the
\* Warning that the column-group should contain a body and no Error
HeaderOverflowWarns ==
    pc = "validated" =>
        \A t \in {FromString(xml)} :
            \A j \in 1..Len(TablesOf(content.elements)) :
                TablesOf(content.elements)[j].header_rows
                        > Len(TablesOf(content.elements)[j].rows)
                    => HeaderOnlyReported(t, j)

-----------------------------------------------------------------------------
(* The validator on texts of any origin (validate_xml) *)

\* most children of the root in an enumerated document
MaxKids == 2

Open(tag, attrs) == [k |-> "open", tag |-> tag, attrs |-> attrs]
Close(tag) == [k |-> "close", tag |-> tag]
EmptyTag(tag, attrs) == [k |-> "empty", tag |-> tag, attrs |-> attrs]
Chars(text) == [k |-> "text", text |-> text]

Titled(tag, attrs, inner) ==
    <<Open(tag, attrs), Open("title", NoAttrs), Chars(<<"T">>), Close("title")>>
    \o inner \o <<Close(tag)>>

CH1 == <<"c", "h", "0", "0", "0", "1">>
FG1 == CH1 \o <<"s", "0", "0", "0", "0", "f", "g", "0", "1">>

\* a figure complete in structure whose file is not named by the convention
\* and carries no sizing attributes
LooseFigure ==
    Titled("figure", [id |-> FG1],
           <<Open("mediaobject", NoAttrs), Open("imageobject", NoAttrs),
             EmptyTag("imagedata",
                      [fileref |-> MULTIMEDIA \o <<"p", "i", "c", ".", "p", "n", "g">>]),
             Close("imageobject"), Close("mediaobject")>>)

\* elements of a book, as text
Shapes ==
    {Titled("chapter", [id |-> CH1], <<>>),
     Titled("chapter", [id |-> <<"i", "n", "t", "r", "o">>], <<>>),
     <<EmptyTag("chapter", [id |-> CH1])>>,
     <<EmptyTag("para", [id |-> CH1])>>,
     <<EmptyTag("para", [id |-> <<"p", "1">>])>>,
     <<EmptyTag("tip", NoAttrs)>>,
     Titled("figure", [id |-> <<"f", "1">>], <<>>),
     LooseFigure}

BookOf(kids) == Titled("book", NoAttrs, Concat(kids))

\* what precedes the root element
Prologs ==
    {<<>>,
     <<[k |-> "xmldecl"],
       [k |-> "doctype", public |-> RITTDOC_DOCTYPE_PUBLIC,
        system |-> RITTDOC_DOCTYPE_SYSTEM, entities |-> <<>>]>>,
     <<[k |-> "xmldecl"],
       [k |-> "doctype", public |-> "-//OASIS//DTD DocBook XML V4.3//EN",
        system |-> "docbookx.dtd", entities |-> <<>>]>>}

\* texts that hold no element: nothing, character data, a stray end tag
NoElement == {<<>>, <<Chars(<<"garbage">>)>>, <<Close("book")>>}

Documents ==
    {prolog \o body :
        prolog \in Prologs,
        body \in NoElement \cup {BookOf(kids) : kids \in BoundedSeq(Shapes, MaxKids)}}

\* validate is about to be called on a text; no document is being generated
InitValidate ==
    \E doc \in Documents :
        /\ content = Extracted(<<>>, <<>>)
        /\ images = Payloads
        /\ self = NewGenerator(MULTIMEDIA)
        /\ loc = NoLocals
        /\ tree = <<>>
        /\ pos = 0
        /\ pc = "validate"
        /\ writes = [img \in DOMAIN Payloads |-> 0]
        /\ xml = doc
        /\ package = NoPackage
        /\ result = <<>>
        /\ prev = <<>>
        /\ runs = <<>>
        /\ job = NoJob

\* validate_xml(xml_content)
ValidateText ==
    /\ pc = "validate"
    /\ result' = Validate(xml)
    /\ pc' = "validated"
    /\ UNCHANGED <<content, images, self, loc, tree, pos, writes, xml, package, prev, runs, job>>

NextValidate == ValidateText

SpecValidate == InitValidate /\ [][NextValidate]_vars

\* the findings of a returned result, of every severity
AllFindings(r) == r.errors \o r.warnings \o r.info

\* C13: a result returned by validate has is_valid true exactly when none of
\* its findings has severity Error, whatever Warnings, Info findings and
\* verification items it holds, and total_errors and total_warnings are the
\* lengths of its errors and warnings lists
ValidIffNoErrors ==
    (pc = "validated" /\ Returned(result)) =>
        /\ result.is_valid <=> WithSeverity(AllFindings(result), "Error") = <<>>
        /\ result.total_errors = Len(result.errors)
        /\ result.total_warnings = Len(result.warnings)

\* a valid result that holds Warnings and a verification item
ValidWithWarnings ==
    /\ pc = "validated" /\ Returned(result)
    /\ result.is_valid
    /\ result.warnings # <<>>
    /\ result.verifications # <<>>

\* C14: on a text that cannot be parsed at top level (it holds no element)
\* validate returns, and what it returns is exactly one finding, the Error
\* describing the parse failure, with no warnings, no verification items
\* and is_valid false
ParseFailureIsOneError ==
    (pc = "validated" /\ FromString(xml) = <<>>) => result = ParseFailed

\* the elements of the parsed text that carry this id, in document order
Carrying(t, id) == SelectSeq(Walk(t, Root), LAMBDA i : Get(t[i], "id") = id)

\* the ids that occur on more than one element of the document
RepeatedIds(t) ==
    {Get(t[i], "id") : i \in {n \in 1..Len(t) :
        Get(t[n], "id") # <<>> /\ Len(Carrying(t, Get(t[n], "id"))) > 1}}

\* the elements whose id does not match the pattern of their tag
Misformatted(t) ==
    SelectSeq(Walk(t, Root), LAMBDA i :
        /\ t[i].tag \in ID_PATTERN_TAGS
        /\ Get(t[i], "id") # <<>>
        /\ ~IdPatternMatches(t[i].tag, Get(t[i], "id")))

\* a non-matching id is reported once, as a Warning, and never as an Error
FormatIsWarning(t) ==
    /\ Len(SelectSeq(result.warnings,
                      LAMBDA f : f.error_type = "Invalid ID Format"))
          = Len(Misformatted(t))
    /\ \A k \in 1..Len(result.errors) :
          result.errors[k].error_type # "Invalid ID Format"

\* C15: in a validated document an id that does not match the fixed-width
\* pattern of its tag yields a Warning and never an Error, and an id value
\* that occurs on more than one element, anywhere in the document, yields a
\* "Duplicate ID" Error, whether or not it matches a format
DuplicateIdAlwaysError ==
    (pc = "validated" /\ FromString(xml) # <<>>) =>
        \A t \in {FromString(xml)} :
            /\ FormatIsWarning(t)
            /\ RepeatedIds(t) # {} => FindingsOf("Duplicate ID") # <<>>

-----------------------------------------------------------------------------
(* The packager on texts of any origin (create_rittdoc_package) *)

\* longest image list enumerated
MaxImages == 2

CH2 == <<"c", "h", "0", "0", "0", "2">>

\* children of the root: chapters with distinct ids, a chapter that repeats
\* the id of another with other content, a chapter without id, and an
\* element that is no chapter
RootChildren ==
    {Titled("chapter", [id |-> CH1], <<>>),
     Titled("chapter", [id |-> CH2], <<EmptyTag("para", NoAttrs)>>),
     Titled("chapter", [id |-> CH1], <<EmptyTag("para", NoAttrs)>>),
     Titled("chapter", NoAttrs, <<>>),
     <<EmptyTag("index", NoAttrs)>>}

StandardProlog ==
    <<[k |-> "xmldecl"],
      [k |-> "doctype", public |-> RITTDOC_DOCTYPE_PUBLIC,
       system |-> RITTDOC_DOCTYPE_SYSTEM, entities |-> <<>>]>>

PackageTexts ==
    {<<>>, <<Chars(<<"garbage">>)>>}
    \cup {StandardProlog \o BookOf(kids) : kids \in BoundedSeq(RootChildren, MaxKids)}

\* the ExtractedImage objects, the second with or without payload
Stores ==
    {Payloads, [Payloads EXCEPT !["img2"].data = <<>>]}

\* create_package is about to be called on a text and an image list
InitPackage ==
    \E text \in PackageTexts, imgs \in BoundedSeq(DOMAIN Payloads, MaxImages),
       store \in Stores :
        /\ content = [Extracted(<<>>, <<>>) EXCEPT !.images = imgs]
        /\ images = store
        /\ self = NewGenerator(MULTIMEDIA)
        /\ loc = NoLocals
        /\ tree = <<>>
        /\ pos = 0
        /\ pc = "package"
        /\ writes = [img \in DOMAIN Payloads |-> 0]
        /\ xml = text
        /\ package = NoPackage
        /\ result = <<>>
        /\ prev = <<>>
        /\ runs = <<>>
        /\ job = NoJob

\* create_package(xml_content, images, output_path, content); the output
\* path is writable or not
PackageWithContent ==
    /\ pc = "package"
    /\ \E io_ok \in BOOLEAN :
          package' = CreatePackage(xml, content.images, images, TRUE, io_ok)
    /\ pc' = "packaged"
    /\ UNCHANGED <<content, images, self, loc, tree, pos, writes, xml, result, prev, runs, job>>

\* create_package(xml_content, images, output_path): content is None
PackageWithoutContent ==
    /\ pc = "package"
    /\ \E io_ok \in BOOLEAN :
          package' = CreatePackage(xml, content.images, images, FALSE, io_ok)
    /\ pc' = "packaged without content"
    /\ UNCHANGED <<content, images, self, loc, tree, pos, writes, xml, result, prev, runs, job>>

NextPackage ==
    \/ PackageWithContent
    \/ PackageWithoutContent

SpecPackage == InitPackage /\ [][NextPackage]_vars

Packaged == pc \in {"packaged", "packaged without content"}

\* the shell written to the archive
Shell == package.zip[1].data

\* the entity declarations of the shell's DOCTYPE, in order
Declarations(shell) ==
    SelectSeq(shell, LAMBDA tok : tok.k = "doctype")[1].entities

\* the names of the entity references of the shell, in order
References(shell) ==
    LET refs == SelectSeq(shell, LAMBDA tok : tok.k = "entityref")
    IN  [k \in 1..Len(refs) |-> refs[k].name]

\* the ids of the direct chapter children of the root, in document order
ChapterIds(t) == [k \in 1..Len(Chapters(t)) |-> Get(t[Chapters(t)[k]], "id")]

\* the shell ends with these references and the root's closing tag
EndsWithReferences(shell, ids) ==
    /\ Len(shell) > Len(ids)
    /\ shell[Len(shell)] = Close("book")
    /\ \A k \in 1..Len(ids) :
          shell[Len(shell) - Len(ids) + k - 1] = [k |-> "entityref", name |-> ids[k]]

\* the shell of a split document with these chapter ids
SplitInOrder(shell, ids) ==
    /\ \A k \in 1..Len(shell) :
          shell[k].k \in {"open", "empty"} => shell[k].tag # "chapter"
    /\ Declarations(shell) = [k \in 1..Len(ids) |-> EntityDeclaration(ids[k])]
    /\ References(shell) = ids
    /\ EndsWithReferences(shell, ids)

\* C16: after the split the shell holds no chapter element, one entity
\* declaration and one entity reference per chapter removed from the root,
\* named by the chapter's id and pointing at {id}.xml, both in the original
\* chapter order, the references immediately before the root's closing tag
ShellDeclaresEveryChapter ==
    (Packaged /\ package.zip # <<>>) =>
        \A ids \in {ChapterIds(FromString(xml))} : SplitInOrder(Shell, ids)

\* the content of the archive entry with this name, or no text
FileNamed(zip, name) ==
    LET hits == SelectSeq(zip, LAMBDA entry : entry.name = name)
    IN  IF hits = <<>> THEN <<>> ELSE hits[1].data

\* the file an entity reference stands for: the file its declaration points to
EntityContent(zip, declarations, name) ==
    LET hits == SelectSeq(declarations, LAMBDA d : d.name = name)
    IN  IF hits = <<>> THEN <<>> ELSE FileNamed(zip, hits[1].system)

RECURSIVE Substitute(_, _, _)
\* the shell with every entity reference replaced by the text it stands for
Substitute(toks, zip, declarations) ==
    IF toks = <<>> THEN <<>>
    ELSE (IF Head(toks).k = "entityref"
          THEN EntityContent(zip, declarations, Head(toks).name)
          ELSE <<Head(toks)>>)
         \o Substitute(Tail(toks), zip, declarations)

\* the document the package stands for
Reassembled ==
    FromString(Substitute(Shell, package.zip, Declarations(Shell)))

\* C17: substituting each entity reference of the shell by the content of
\* the chapter file its declaration points to gives back the tree that was
\* split: every chapter removed from the root is in one chapter file, none
\* is lost or merged
RoundTrip ==
    (Packaged /\ package.zip # <<>>) => Reassembled = FromString(xml)

\* C18: create_package returns a PackageResult whatever fails: a failure of
\* the re-parse, the split or the writing gives success = false with a
\* non-empty errors list, and success = true comes with an empty errors
\* list and a set package_path
FailuresAreReported ==
    Packaged =>
        /\ ~package.success => package.errors # <<>>
        /\ package.success => package.errors = <<>> /\ package.package_path

\* a text without a root element was given and the failure was reported
ReparseFailureReported ==
    /\ Packaged
    /\ xml # <<>> /\ FromString(xml) = <<>>
    /\ ~package.success
    /\ package.errors = <<"AttributeError">>

\* the names of the archive's entries
Names(zip) == {zip[k].name : k \in 1..Len(zip)}

\* the archive holds the shell, a file per chapter, every image that has a
\* payload under multimedia/ with its bytes, and the sidecars
PackageComplete(t) ==
    /\ BOOK_XML \in Names(package.zip)
    /\ \A k \in 1..Len(ChapterIds(t)) :
          ChapterIds(t)[k] \o DOT_XML \in Names(package.zip)
    /\ \A k \in 1..Len(content.images) :
          images[content.images[k]].data # <<>> =>
              FileNamed(package.zip, MULTIMEDIA \o images[content.images[k]].filename)
                  = images[content.images[k]].data
    /\ Emitted(content.images, images) # <<>> => METADATA_CSV \in Names(package.zip)
    /\ BOOK_METADATA_CSV \in Names(package.zip)

\* C19: given well-formed XML, a writable output path, the image list and
\* the document content, create_package succeeds and the package holds the
\* shell, one file per chapter, multimedia/{filename} with the exact bytes
\* of every image that has a payload, metadata.csv when an image was
\* emitted, and book_metadata.csv
PackageWithContentSucceeds ==
    (pc = "packaged" /\ FromString(xml) # <<>> /\ package.errors # <<"OSError">>) =>
        /\ package.success
        /\ \A t \in {FromString(xml)} : PackageComplete(t)

-----------------------------------------------------------------------------
(* The cross-reference maps *)

\* the number of elements of this type among the first n of the document
Processed(type, n) ==
    Len(SelectSeq(SubSeq(content.elements, 1, n),
                  LAMBDA e : e.element_type = type))

\* the ids of the elements tagged tag, in document order
IdsOf(t, tag) ==
    LET nodes == Iter(t, tag)
    IN  [k \in 1..Len(nodes) |-> t[nodes[k]].attrs.id]

\* the map is keyed 1..n, its counter stands at n, and entry k is the id
\* of the k-th element tagged tag
Numbers(map, counter, n, tag) ==
    /\ DOMAIN map = 1..n
    /\ counter = n
    /\ \A ids \in {IdsOf(tree, tag)} :
          /\ Len(ids) = n
          /\ \A k \in 1..n : map[k] = ids[k]

\* after any number of elements both maps number the figures and the
\* tables created so far
MapsNumberTheDocument ==
    /\ Numbers(self.figure_id_map, self.global_figure_counter,
               Processed("image", pos), "figure")
    /\ Numbers(self.table_id_map, self.global_table_counter,
               Processed("table", pos), "table")

\* new is old with zero or more entries added
Extends(new, old) ==
    /\ DOMAIN old \subseteq DOMAIN new
    /\ \A k \in DOMAIN old : new[k] = old[k]

\* a step keeps every entry, never lowers a global counter, and outside
\* the builder pass leaves the maps as they are
MapsOnlyGrow ==
    /\ Extends(self'.figure_id_map, self.figure_id_map)
    /\ Extends(self'.table_id_map, self.table_id_map)
    /\ self'.global_figure_counter >= self.global_figure_counter
    /\ self'.global_table_counter >= self.global_table_counter
    /\ (pos' = pos) =>
          /\ self'.figure_id_map = self.figure_id_map
          /\ self'.table_id_map = self.table_id_map

\* C20: the cross-reference maps are append-only and keyed by global
\* sequence number: after the builder pass over F image and T table
\* elements the figure map's keys are 1..F and the table map's 1..T,
\* map[k] is the id of the k-th figure (table) in document order, no entry
\* is overwritten or removed, the global counters never decrease and are
\* not reset at chapter boundaries, and the resolver pass leaves both maps
\* unchanged
MapsAppendOnly == [] MapsNumberTheDocument /\ [][MapsOnlyGrow]_vars

\* the resolver has run on a document whose second figure opens a second
\* chapter: first in its chapter, second in the document
MapsSpanChapters ==
    /\ pc = "generated"
    /\ self.chapter_counter = 2
    /\ self.figure_counter = 1
    /\ self.global_figure_counter = 2
    /\ DOMAIN self.figure_id_map = {1, 2}
    /\ self.figure_id_map[1] # self.figure_id_map[2]

-----------------------------------------------------------------------------
(* Bold spans that hold a reference *)

\* longest paragraph enumerated, in pieces
MaxSpans == 3

\* pieces of paragraph text: bold spans that are a resolvable reference
\* (bare, and with blanks around it), that begin with one and go on, that
\* are a reference to a figure that does not exist, that are no reference;
\* and plain text with and without a reference
Spans ==
    {<<BOLD, "Figure", " ", "1", BOLD>>,
     <<BOLD, " ", "Table", " ", "1", " ", BOLD>>,
     <<BOLD, "Figure", " ", "1", " ", "and", BOLD>>,
     <<BOLD, "Figure", " ", "9", BOLD>>,
     <<BOLD, "and", BOLD>>,
     <<" ", "and", " ">>, <<"Table", " ", "1">>}

InitSpans ==
    \E segs \in BoundedSeq(Spans, MaxSpans) :
        Started(Extracted(<<>>, Citing(Concat(segs))))

NextSpans ==
    \/ ProcessParagraph
    \/ ProcessImage
    \/ ProcessTable
    \/ Finish

SpecSpans == InitSpans /\ [][NextSpans]_vars

\* the whole trimmed text is one match of the reference grammar
FullMatch(text) ==
    \A trimmed \in {Strip(text)} :
        trimmed # <<>> /\ MatchEnd(trimmed, 1) = Len(trimmed)

\* the (parent, position) pairs of the emphasis spans of a tree
EmphasisSpans(t) ==
    {pk \in (1..Len(t)) \X (1..Len(t)) :
        /\ pk[2] <= Len(t[pk[1]].kids)
        /\ t[t[pk[1]].kids[pk[2]]].tag = "emphasis"}

\* what the emphasis loop made of the span at position k of parent p
SpanResolved(s, before, after, p, k) ==
    \A e \in {before[p].kids[k]} :
        IF FullMatch(before[e].text)
              /\ MatchAndResolve(s, Strip(before[e].text)) # NoLink
        THEN after[after[p].kids[k]]
                = LinkNode([linkend |-> MatchAndResolve(s, Strip(before[e].text)),
                            text |-> before[e].text,
                            tail |-> before[e].tail])
        ELSE after[p].kids[k] = e /\ after[e] = before[e]

\* every span of before is resolved in after, and the links of after are
\* the links of final
SpansResolved(s, before, after, final) ==
    /\ \A pk \in EmphasisSpans(before) :
          SpanResolved(s, before, after, pk[1], pk[2])
    /\ \A l \in 1..Len(after) : after[l].tag = "link" => final[l] = after[l]

\* C21: an emphasis span is replaced by a link only when its full trimmed
\* text matches the reference grammar and the reference resolves; the link
\* carries the resolved id, the span's display text and its tail text, and
\* every other span is left as it was
FullMatchSpansBecomeLinks ==
    pc = "generated" =>
        SpansResolved(self, prev, ForEachIn(self, prev, "emphasis", TRUE), tree)

-----------------------------------------------------------------------------
(* The plain text of a paragraph after the resolver pass *)

\* what _extract_links_from_text leaves of a string once its resolvable
\* references are taken out as links
Remaining(s, text) == ExtractLinksFromText(s, text).remaining

\* the leading text of the paragraph and the trailing text of each of its
\* children in before have been examined: each is in after what is left of
\* it without its resolvable references
Examined(s, before, after, para) ==
    /\ after[para].text = Remaining(s, before[para].text)
    /\ \A k \in 1..Len(before[para].kids) :
          \A child \in {before[para].kids[k]} :
              after[child].tail = Remaining(s, before[child].tail)

\* C22: in every paragraph the resolver examines the leading text and the
\* trailing text after each child, whatever the child's tag, the links made
\* from emphasis spans included, so that after one pass every resolvable
\* reference of the paragraph's plain text is linked
EveryTailExamined ==
    pc = "generated" =>
        \A linked \in {ForEachIn(self, prev, "emphasis", TRUE)} :
            \A para \in Paras(linked) : Examined(self, linked, tree, para)

-----------------------------------------------------------------------------
(* Elements with nothing in them *)

\* a table without rows
NoRowsTable ==
    [rows |-> <<>>, header_rows |-> 1, caption |-> <<>>, num_cols |-> 0]

\* a paragraph of blanks
Blank == Block(<<" ", " ">>, 0, NoListType)

Skippable ==
    {ParagraphElement(b) : b \in {Heading(1), Heading(2), Hello, Empty, Blank, Bullet}}
    \cup {TableElement(PlainTable), TableElement(NoRowsTable)}

InitSkippable == InitOver(Skippable)

NextSkippable ==
    \/ ProcessParagraph
    \/ ProcessTable
    \/ Finish

SpecSkippable == InitSkippable /\ [][NextSkippable]_vars

Tagged(t, tag) == {i \in 1..Len(t) : t[i].tag = tag}

NothingIn(elem) ==
    \/ elem.element_type = "table" /\ elem.table.rows = <<>>
    \/ /\ elem.element_type = "paragraph"
       /\ elem.paragraph.list_type = NoListType
       /\ Strip(elem.paragraph.text) = <<>>

\* the builder's step over an element with nothing in it leaves the tables
\* and the paragraphs of the tree as they are
SkipsNothingIn ==
    (pos' = pos + 1 /\ NothingIn(content.elements[pos + 1])) =>
        /\ Tagged(tree', "table") = Tagged(tree, "table")
        /\ Tagged(tree', "para") = Tagged(tree, "para")

\* C23: the builder silently skips malformed or empty elements: a table
\* element with no rows and a non-list paragraph whose text is empty add no
\* table and no para node to the tree, and cause no error
EmptyElementsSkipped == [][SkipsNothingIn]_vars

-----------------------------------------------------------------------------
(* List containers *)

Listing ==
    {ParagraphElement(b) : b \in {Heading(1), Heading(2), Hello, Empty,
                                   Bullet, Numbered}}
    \cup {ImageElement("img1"), TableElement(PlainTable)}

InitListing == InitOver(Listing)

SpecListing == InitListing /\ [][Next]_vars

\* the element takes the list branch of the loop
IsListItem(elem) ==
    /\ elem.element_type = "paragraph"
    /\ elem.paragraph.level < 1
    /\ elem.paragraph.list_type # NoListType

\* the positions of the list items among the first n elements
ListElements(n) ==
    SelectSeq([k \in 1..n |-> k], LAMBDA k : IsListItem(content.elements[k]))

\* the nodes with this tag, in the order of their creation
Created(t, tag) == SelectSeq([i \in 1..Len(t) |-> i], LAMBDA i : t[i].tag = tag)

ListTypeAt(k) == content.elements[k].paragraph.list_type

\* the list items at positions at[j] and at[k] of the input follow one
\* another with nothing between them and are all of one type
OneRun(at, j, k) ==
    /\ at[k] - at[j] = k - j
    /\ \A m \in j..k : ListTypeAt(at[m]) = ListTypeAt(at[j])

\* items are the listitem nodes made from the list items at positions at
ContainersFollow(t, items, at) ==
    /\ Len(items) = Len(at)
    /\ \A j \in 1..Len(items) :
          t[Parent(t, items[j])].tag = ListTag(ListTypeAt(at[j]))
    /\ \A j \in 1..Len(items) : \A k \in j..Len(items) :
          (Parent(t, items[j]) = Parent(t, items[k])) <=> OneRun(at, j, k)

ListsFollowElements ==
    /\ \A l \in Tagged(tree, "itemizedlist") \cup Tagged(tree, "orderedlist") :
          \A k \in 1..Len(tree[l].kids) : tree[tree[l].kids[k]].tag = "listitem"
    /\ ContainersFollow(tree, Created(tree, "listitem"), ListElements(pos))

\* a container made by this step is the last child of the deepest section
\* open after it
NewListUnderDeepest ==
    \A l \in 1..Len(tree') :
        (l > Len(tree) /\ tree'[l].tag \in {"itemizedlist", "orderedlist"}) =>
            /\ Parent(tree', l) = DeepestOpen(loc')
            /\ tree'[DeepestOpen(loc')].kids[Len(tree'[DeepestOpen(loc')].kids)] = l

\* C24: after any element sequence every list container holds items of one
\* list type: list items of one type with nothing between them share a
\* container, an item of another type opens a container of the matching
\* tag, and a heading, a non-list paragraph (even an empty one), an image
\* or a table closes the open list, so that a later item opens a new
\* container under the deepest section then open
ListsNeverMix == [] ListsFollowElements /\ [][NewListUnderDeepest]_vars

\* two bullet items with an empty paragraph between them are in two
\* containers
ListReopened ==
    /\ pc = "generated"
    /\ Len(content.elements) = 3
    /\ content.elements[1] = ParagraphElement(Bullet)
    /\ content.elements[2] = ParagraphElement(Empty)
    /\ content.elements[3] = ParagraphElement(Bullet)
    /\ Cardinality(Tagged(tree, "itemizedlist")) = 2

-----------------------------------------------------------------------------
(* Document order *)

\* the tags of the nodes made from the elements
CONTENT_TAGS == {"title", "para", "listitem", "figure", "table"}

RECURSIVE RightmostPath(_, _)
\* node i, its last child, the last child of that one, ...
RightmostPath(t, i) ==
    IF t[i].kids = <<>> THEN {i}
    ELSE {i} \cup RightmostPath(t, t[i].kids[Len(t[i].kids)])

\* the open containers, as the loop holds them
OpenContainers(l) ==
    {l.current_chapter, l.current_sect1, l.current_sect2, l.current_sect3,
     l.current_list} \ {None}

Increasing(seq) == \A a \in 1..Len(seq) : \A b \in a..Len(seq) : seq[a] <= seq[b]

\* a depth-first traversal meets the nodes made from the elements in the
\* order of their creation, which is the order of the elements
InDocumentOrder(t) ==
    Increasing(SelectSeq(Walk(t, Root), LAMBDA i : t[i].tag \in CONTENT_TAGS))

\* C25: document order is preserved: a depth-first traversal of the tree
\* meets the nodes created from the elements (section titles, paragraphs,
\* list items, figures, tables) in the order of the elements, each new node
\* being appended at the end of the deepest open container, and the open
\* containers forming the rightmost path of the tree
DocumentOrderPreserved ==
    /\ InDocumentOrder(tree)
    /\ pc = "process" => OpenContainers(loc) \subseteq RightmostPath(tree, Root)

\* a paragraph after a level-3 heading and a level-2 heading is in the
\* section of the level-2 heading, the last one of the chapter
ParagraphInLastSection ==
    /\ pc = "generated"
    /\ Len(content.elements) = 3
    /\ content.elements[1] = ParagraphElement(Heading(3))
    /\ content.elements[2] = ParagraphElement(Heading(2))
    /\ content.elements[3] = ParagraphElement(Hello)
    /\ \E p \in Tagged(tree, "para") :
          /\ tree[Parent(tree, p)].tag = "sect1"
          /\ \A o \in Tagged(tree, "sect1") : o <= Parent(tree, p)

-----------------------------------------------------------------------------
(* Mandatory and presentation attributes *)

PIC == <<"p", "i", "c", ".", "p", "n", "g">>
CANONICAL ==
    <<"C", "h", "0", "0", "0", "1", "s", "0", "0", "0", "0", "f", "g", "0", "1",
      ".", "p", "n", "g">>
IMG == <<"i", "m", "g", "/">>

Sized(fileref) ==
    [fileref |-> fileref, width |-> <<"1", "0", "0", "%">>, scalefit |-> <<"1">>]

\* image-data elements: named by the convention or not, under multimedia/,
\* under another directory, under none, in a subdirectory; with and without
\* sizing attributes; without a file reference
Imagedatas ==
    {<<EmptyTag("imagedata", attrs)>> :
        attrs \in {Sized(MULTIMEDIA \o CANONICAL), Sized(MULTIMEDIA \o PIC),
                   Sized(IMG \o PIC), Sized(PIC),
                   Sized(MULTIMEDIA \o IMG \o CANONICAL),
                   [fileref |-> MULTIMEDIA \o CANONICAL, width |-> <<"5", "0", "%">>],
                   [scalefit |-> <<"1">>],
                   NoAttrs}}

Body == <<Open("tbody", NoAttrs), Close("tbody")>>
TB1 == CH1 \o <<"s", "0", "0", "0", "0", "t", "b", "0", "1">>

\* elements that lack a mandatory attribute, and two that do not
Lacking ==
    {Titled("chapter", NoAttrs, <<>>),
     Titled("chapter", [id |-> CH1], Titled("sect1", NoAttrs, <<>>)),
     Titled("figure", NoAttrs,
            <<Open("mediaobject", NoAttrs), Open("imageobject", NoAttrs),
              EmptyTag("imagedata", NoAttrs),
              Close("imageobject"), Close("mediaobject")>>),
     Titled("table", [id |-> TB1],
            <<Open("tgroup", NoAttrs)>> \o Body \o <<Close("tgroup")>>),
     Titled("table", NoAttrs,
            <<Open("tgroup", [cols |-> <<"2">>])>> \o Body \o <<Close("tgroup")>>),
     Titled("table", [id |-> TB1],
            <<Open("tgroup", [cols |-> <<"2">>])>> \o Body \o <<Close("tgroup")>>),
     <<EmptyTag("tgroup", NoAttrs)>>}

AttributeDocuments ==
    {StandardProlog \o BookOf(kids) :
        kids \in BoundedSeq(Imagedatas \cup Lacking, MaxKids)}

\* validate is about to be called on this text
CalledOn(doc) ==
    /\ content = Extracted(<<>>, <<>>)
    /\ images = Payloads
    /\ self = NewGenerator(MULTIMEDIA)
    /\ loc = NoLocals
    /\ tree = <<>>
    /\ pos = 0
    /\ pc = "validate"
    /\ writes = [img \in DOMAIN Payloads |-> 0]
    /\ xml = doc
    /\ package = NoPackage
    /\ result = <<>>
    /\ prev = <<>>
    /\ runs = <<>>
    /\ job = NoJob

InitAttributes == \E doc \in AttributeDocuments : CalledOn(doc)

SpecAttributes == InitAttributes /\ [][NextValidate]_vars

\* the elements of the document that lack an attribute they must have
LackingIn(t) ==
    SelectSeq(Walk(t, Root),
              LAMBDA i : /\ t[i].tag \in DOMAIN REQUIRED_ATTRIBUTES
                         /\ ~HasAttr(t[i], REQUIRED_ATTRIBUTES[t[i].tag][1]))

MissingAttributeErrors(r) ==
    SelectSeq(r.errors, LAMBDA f : f.error_type = "Missing Attribute")

\* C26: the validator reports one "Missing Attribute" Error for each
\* occurrence of a missing mandatory attribute, and no more: one for a
\* column group without a column count, one for an image-data without a
\* file reference, one for a chapter, sect1, sect2, sect3, figure or table
\* without an id
OneErrorPerMissingAttribute ==
    (pc = "validated" /\ Returned(result)) =>
        \A t \in {FromString(xml)} :
            Len(MissingAttributeErrors(result)) = Len(LackingIn(t))

RECURSIVE LastSlash(_, _)
\* the position of the last "/" among the first n characters, or 0
LastSlash(name, n) ==
    IF n = 0 THEN 0
    ELSE IF name[n] = "/" THEN n
    ELSE LastSlash(name, n - 1)

\* the file reference without its directories
Basename(fileref) ==
    SubSeq(fileref, LastSlash(fileref, Len(fileref)) + 1, Len(fileref))

Imagedata(t) == SelectSeq(Walk(t, Root), LAMBDA i : t[i].tag = "imagedata")

\* the image-data elements with a file reference whose basename is not
\* named by the convention
Misnamed(t) ==
    SelectSeq(Imagedata(t),
              LAMBDA i : /\ Get(t[i], "fileref") # <<>>
                         /\ ~FigureFilenameMatches(Basename(Get(t[i], "fileref"))))

RECURSIVE Unsized(_, _)
\* the number of sizing attributes these elements lack
Unsized(t, nodes) ==
    IF nodes = <<>> THEN 0
    ELSE (IF HasAttr(t[Head(nodes)], "width") THEN 0 ELSE 1)
         + (IF HasAttr(t[Head(nodes)], "scalefit") THEN 0 ELSE 1)
         + Unsized(t, Tail(nodes))

AboutImagedata(findings) == SelectSeq(findings, LAMBDA f : f.tag = "imagedata")

\* the findings about the image-data elements of t in r are a Warning for
\* each missing sizing attribute and a verification item for each misnamed
\* file, and none is about the naming
ImagedataReported(r, t) ==
    /\ Len(AboutImagedata(r.warnings)) = Unsized(t, Imagedata(t))
    /\ Len(r.verifications) = Len(Misnamed(t))
    /\ \A k \in 1..Len(AboutImagedata(AllFindings(r))) :
          AboutImagedata(AllFindings(r))[k].error_type = "Missing Attribute"

\* C27: for every image-data element each missing sizing attribute (width,
\* scalefit) yields a Warning, and a file reference whose basename does not
\* match Ch{4 digits}s{4 digits}fg{2 digits}.ext yields one verification
\* item and no Error or Warning, whatever directory the reference names
SizingWarnsNamingVerifies ==
    (pc = "validated" /\ Returned(result)) =>
        \A t \in {FromString(xml)} : ImagedataReported(result, t)

-----------------------------------------------------------------------------
(* The Inline Markup Parser on texts of any origin *)

\* longest text enumerated, in pieces
MaxPieces == 4

\* pieces of text: the markers, complete or not, and text that is none
Pieces ==
    {<<STAR>>, <<BOLD>>, <<SUB>>, <<SUP>>, <<BRACE>>, <<"x">>, <<" ", "and", " ">>}

\* "**bold** and *italic* and {sub:x} and {sup:2}"
Example ==
    <<BOLD, "bold", BOLD, " ", "and", " ", STAR, "italic", STAR, " ", "and", " ",
      SUB, "x", BRACE, " ", "and", " ", SUP, "2", BRACE>>

MarkedTexts == {Concat(pieces) : pieces \in BoundedSeq(Pieces, MaxPieces)} \cup {Example}

\* _parse_inline_formatting is about to be called on a text; no document is
\* being generated
InitMarkup ==
    \E text \in MarkedTexts :
        /\ content = Extracted(<<>>, <<ParagraphElement(Block(text, 0, NoListType))>>)
        /\ images = Payloads
        /\ self = NewGenerator(MULTIMEDIA)
        /\ loc = NoLocals
        /\ tree = <<>>
        /\ pos = 0
        /\ pc = "parse"
        /\ writes = [img \in DOMAIN Payloads |-> 0]
        /\ xml = <<>>
        /\ package = NoPackage
        /\ result = <<>>
        /\ prev = <<>>
        /\ runs = <<>>
        /\ job = NoJob

Text == content.elements[1].paragraph.text

\* parts = self._parse_inline_formatting(text)
ParseText ==
    /\ pc = "parse"
    /\ runs' = ParseInlineFormatting(Text)
    /\ pc' = "parsed"
    /\ UNCHANGED <<content, images, self, loc, tree, pos, writes, xml, package,
                   result, prev, job>>

NextMarkup == ParseText

SpecMarkup == InitMarkup /\ [][NextMarkup]_vars

\* the texts a part may come from: itself, or itself between the
\* delimiters of its style
Delimited(part) ==
    CASE part.fmt = "none" -> {part.text}
      [] part.fmt = "subscript" -> {<<SUB>> \o part.text \o <<BRACE>>}
      [] part.fmt = "superscript" -> {<<SUP>> \o part.text \o <<BRACE>>}
      [] part.fmt = "italic" -> {<<STAR>> \o part.text \o <<STAR>>}
      [] part.fmt = "bold" ->
            {<<STAR, STAR>> \o part.text \o <<STAR, STAR>>,
             <<STAR, STAR, STAR>> \o part.text \o <<STAR, STAR, STAR>>}

RECURSIVE Originals(_)
\* the texts these parts may come from
Originals(ps) ==
    IF ps = <<>> THEN {<<>>}
    ELSE {first \o rest : first \in Delimited(Head(ps)), rest \in Originals(Tail(ps))}

HasMarker(text) == \E k \in 1..Len(text) : text[k] \in {BOLD, STAR, SUB, SUP}

Styles(ps) == [k \in 1..Len(ps) |-> ps[k].fmt]
Texts(ps) == [k \in 1..Len(ps) |-> ps[k].text]

\* C28: the texts of the runs the parser returns, concatenated in order,
\* are the input with the delimiters of each matched marker removed and
\* nothing else changed; a text without markers yields one plain run; and
\* "**bold** and *italic* and {sub:x} and {sup:2}" yields the runs bold,
\* italic, subscript, superscript in that order, " and " between them
RunsReproduceText ==
    pc = "parsed" =>
        /\ Stars(Text) \in Originals(runs)
        /\ ~HasMarker(Text) => runs = <<Part(Text, "none")>>
        /\ Text = Example =>
              /\ Styles(runs) = <<"bold", "none", "italic", "none", "subscript",
                                  "none", "superscript">>
              /\ Texts(runs) = << <<"bold">>, <<" ", "and", " ">>, <<"italic">>,
                                  <<" ", "and", " ">>, <<"x">>,
                                  <<" ", "and", " ">>, <<"2">> >>

\* the example has been parsed into seven runs
ExampleParsed == pc = "parsed" /\ Text = Example /\ Len(runs) = 7

-----------------------------------------------------------------------------
(* Headings that hold inline markup *)

\* headings of levels 1 to 3 whose text is "**Intro**" or "{sub:x}", and a
\* paragraph
MarkedHeadings ==
    {ParagraphElement(Block(text, level, NoListType)) :
        text \in {<<BOLD, "Intro", BOLD>>, <<SUB, "x", BRACE>>}, level \in 1..3}
    \cup {ParagraphElement(Hello)}

InitHeadings == InitOver(MarkedHeadings)

NextHeadings ==
    \/ ProcessParagraph
    \/ Finish

SpecHeadings == InitHeadings /\ [][NextHeadings]_vars

\* the texts of the runs of a text, styling dropped
PlainTitle(text) == Concat(Texts(ParseInlineFormatting(CleanText(text))))

\* the step over a heading ends with the title of the chapter or section it
\* opens, whose text is the heading's runs without their styling
TitleFromRuns ==
    (pos' = pos + 1 /\ content.elements[pos + 1].paragraph.level >= 1) =>
        \A title \in {tree'[Len(tree')]} :
            /\ title.tag = "title"
            /\ title.text = PlainTitle(content.elements[pos + 1].paragraph.text)
            /\ ~HasMarker(title.text)

\* C29: the title of every chapter and section made from a heading is the
\* heading's text run through the Inline Markup Parser, styling collapsed to
\* plain text: for a heading with well-formed markers ("**Intro**",
\* "{sub:x}") it is the concatenated run texts and holds no delimiter
TitlesAreParsed == [][TitleFromRuns]_vars

-----------------------------------------------------------------------------
(* The job front end: one job, its conversion worker and cancel requests *)

\* cancel requests made for the job
MaxRequests == 2

TERMINAL == {"completed", "failed", "cancelled"}

\* JobManager.create_job: the job as it is when run_conversion is queued
CreateJob(options) ==
    [status |-> "pending", progress |-> 0, error |-> <<>>,
     completed_at |-> FALSE, output_files |-> FALSE, options |-> options,
     worker |-> "queued", result |-> "none",
     request |-> "none", requests |-> 0, rejected |-> 0]

\* JobManager.update_job(job_id, status=..., progress=..., error=...,
\* output_files=...); progress is <<>> for None, error is <<>> for None
UpdateJob(j, status, progress, error, output_files) ==
    [j EXCEPT !.status = status,
              !.progress = IF progress # <<>> THEN progress[1] ELSE @,
              !.error = IF error # <<>> THEN error ELSE @,
              !.output_files = IF output_files THEN TRUE ELSE @,
              !.completed_at = IF status \in TERMINAL THEN TRUE ELSE @]

InitJob ==
    \E options \in [extract_images : BOOLEAN, create_package : BOOLEAN] :
        /\ content = Extracted(<<>>, <<>>)
        /\ images = Payloads
        /\ self = NewGenerator(MULTIMEDIA)
        /\ loc = NoLocals
        /\ tree = <<>>
        /\ pos = 0
        /\ pc = "api"
        /\ writes = [img \in DOMAIN Payloads |-> 0]
        /\ xml = <<>>
        /\ package = NoPackage
        /\ result = <<>>
        /\ prev = <<>>
        /\ runs = <<>>
        /\ job = CreateJob(options)

JobStep(j) ==
    /\ job' = j
    /\ UNCHANGED <<content, images, self, loc, tree, pos, pc, writes, xml,
                   package, result, prev, runs>>

\* run_conversion up to its first update_job
WorkerStart ==
    /\ job.worker = "queued"
    /\ JobStep([UpdateJob(job, "processing", <<10>>, <<>>, FALSE)
                    EXCEPT !.worker = "processing"])

\* ... up to the update_job before orchestrator.convert
WorkerExtract ==
    /\ job.worker = "processing"
    /\ JobStep([UpdateJob(job, "extracting", <<30>>, <<>>, FALSE)
                    EXCEPT !.worker = "extracting"])

\* orchestrator.convert returns a result, success or not, or raises
WorkerConvert ==
    /\ job.worker = "extracting"
    /\ \E outcome \in {"success", "failure", "exception"} :
          JobStep(IF outcome = "exception"
                  THEN [UpdateJob(job, "failed", <<>>, <<"e">>, FALSE)
                           EXCEPT !.worker = "finished"]
                  ELSE [UpdateJob(job, "converting", <<70>>, <<>>, FALSE)
                           EXCEPT !.worker = "converted", !.result = outcome])

\* the update_job that ends run_conversion
WorkerFinish ==
    /\ job.worker = "converted"
    /\ JobStep(IF job.result = "success"
               THEN [UpdateJob(job, "completed", <<100>>, <<>>,
                               job.options.create_package)
                        EXCEPT !.worker = "finished"]
               ELSE [UpdateJob(job, "failed", <<>>, <<"U">>, FALSE)
                        EXCEPT !.worker = "finished"])

\* cancel_job up to its test of job.status: HTTP 400 for a finished job
CancelCheck ==
    /\ job.request = "none" /\ job.requests < MaxRequests
    /\ JobStep(IF job.status \in TERMINAL
               THEN [job EXCEPT !.requests = @ + 1, !.rejected = @ + 1]
               ELSE [job EXCEPT !.requests = @ + 1, !.request = "accepted"])

\* the rest of cancel_job
CancelUpdate ==
    /\ job.request = "accepted"
    /\ JobStep([UpdateJob(job, "cancelled", <<>>, <<>>, FALSE)
                    EXCEPT !.request = "none"])

NextJob ==
    \/ WorkerStart
    \/ WorkerExtract
    \/ WorkerConvert
    \/ WorkerFinish
    \/ CancelCheck
    \/ CancelUpdate

SpecJob == InitJob /\ [][NextJob]_vars

\* a finished status stays, and a cancel request that finds the job
\* finished is rejected
FinishedStays ==
    /\ job.status \in TERMINAL => job'.status = job.status
    /\ (job'.requests = job.requests + 1 /\ job.status \in TERMINAL) =>
          /\ job'.rejected = job.rejected + 1
          /\ job'.request = "none"

\* C30: a job status that has reached completed, failed or cancelled never
\* changes again under any interleaving of the conversion worker and the
\* API requests: a job cancelled while run_conversion is in progress stays
\* cancelled, and cancel_job is rejected for a job in a terminal status
TerminalStatusIsFinal == [][FinishedStays]_vars

====
